---- MODULE Spec2Model ----
(***************************************************************************)
(* Model of the workky backend (server/server.js) and browser client       *)
(* (src/main.js): agent lifecycle manager, event relay, business           *)
(* configuration store, LLM reverse proxy and the cross-tab agent lock.    *)
(***************************************************************************)
EXTENDS Integers, Sequences, FiniteSets, Bags, TLC

\* ------------------------------------------------------------------------
\* Bounds of the model
\* ------------------------------------------------------------------------
MaxReqs == 1
MaxPublished == 52
MaxConns == 2
MaxFanPublished == 3
MaxTabs == 2
MaxPending == 2
MaxChunks == 3

MaxServices == 2

MaxUsers == 2

MaxOverLimit == 2

\* ------------------------------------------------------------------------
\* Program constants
\* ------------------------------------------------------------------------
MaxChannelLen == 64

MaxAgentIdLen == 128

RateLimitMax == 30
StaleAgentDelayMs == 1500
LogBufferCap == 50

\* ------------------------------------------------------------------------
\* JavaScript values, abstracted to their type and their length / number
\* ------------------------------------------------------------------------
JsVal(t, n) == [t |-> t, n |-> n]

Undef == JsVal("undefined", 0)

Null == JsVal("null", 0)

\* JavaScript truthiness: undefined, null, false, 0 and "" are falsy
Truthy(v) ==
  CASE v.t \in {"undefined", "null"} -> FALSE
    [] v.t \in {"boolean", "number", "string"} -> v.n # 0
    [] OTHER -> TRUE

\* the absent agent_id, and the ids the vendor hands out
NoAgentId == "<undefined>"

AgentIds == {"agentA", "agentB"}

\* a string agent id is falsy when it is absent or empty
TruthyId(id) == id # NoAgentId /\ id # ""

Reqs == 1..MaxReqs

VARIABLES
  reqPc,         \* position of each request in its handler
  reqRoute,      \* the endpoint each request was sent to
  reqBody,       \* the parsed JSON body of each start-agent request
  stopBody,      \* the agentId field of the body of each stop-agent request
  staleAgentId,  \* errBody.agent_id of the 409 answer
  trace,         \* vendor calls issued and delays waited, in order
  joinAnswers,   \* the vendor's answers to the join calls, in order
  leaveAnswers,  \* the vendor's answers to the leave call
  responses      \* the responses sent to the caller

agentVars == <<reqPc, reqRoute, reqBody, stopBody, staleAgentId, trace, joinAnswers,
               leaveAnswers, responses>>

VARIABLES
  agentLogClients,  \* the set of open subscriber responses
  agentLogBuffer,   \* the replay buffer
  published,        \* every event broadcast so far, in order
  stream,           \* what has been written to each subscriber response
  connState,        \* "idle", "open" or "closed" for each connection
  connectedAt,      \* the number of events published when it connected
  logReply,         \* the last POST /api/agent-log response
  logBody           \* the body of the last POST /api/agent-log request

relayVars ==
  <<agentLogClients, agentLogBuffer, published, stream, connState, connectedAt, logReply,
    logBody>>

VARIABLES
  tabPc,             \* "closed", "session", "ready" or "broken" for each tab
  isJoined,
  isAgentRunning,
  agentId,
  channelInput,      \* the value of #channel-input
  agentBtnDisabled,  \* #btn-agent as left by the last updateControls
  storageDirty,      \* a storage event for the lock keys is on its way
  runningChannel,    \* the channel of the start request that set agentId
  pending,           \* the fetches of the tabs that are awaiting an answer
  lsLock,            \* the three lock keys of localStorage
  fetchOk,           \* history: FALSE when the last step handled a failed answer to a fetch
  present,           \* the remote users of the channel, as the SDK has reported them to each tab
  remoteUsers,       \* the keys of each tab's remoteUsers map
  subscribing,       \* per tab and uid, the user-published handlers awaiting client.subscribe
  leftSince          \* history: the uids that left and have not joined or published since

tabVars == <<tabPc, isJoined, isAgentRunning, agentId, channelInput, agentBtnDisabled,
             storageDirty, runningChannel, pending, lsLock, fetchOk, present, remoteUsers,
             subscribing, leftSince>>

VARIABLES
  configFile,  \* the text of data/business_config.json, or NoFile
  lastSaved,   \* the body of the last save that answered {ok:true}
  saveReply,   \* status of the last POST /api/business/save response
  loadReply    \* the last GET /api/business/load response

configVars == <<configFile, lastSaved, saveReply, loadReply>>

VARIABLES
  proxyPc,      \* "idle", "fetching", "streaming", "done" or "aborted"
  proxyReq,     \* the incoming request: headers and JSON body
  upstreamReq,  \* the request sent to CUSTOM_LLM_URL
  upstream,     \* the upstream answer
  upRead,       \* the number of upstream body chunks read so far
  resStatus,    \* the status of the response
  resHeaders,   \* the header names set on the response
  resBody,      \* the chunks written to the response
  resEnded

proxyVars == <<proxyPc, proxyReq, upstreamReq, upstream, upRead, resStatus, resHeaders,
               resBody, resEnded>>

VARIABLES
  now,       \* the instant of the server clock
  lastCall,  \* the last call of buildSystemPrompt: its argument, instant and result
  prevCall   \* the call before it

promptVars == <<now, lastCall, prevCall>>

VARIABLES
  env,           \* process.env: the value of each variable, "" when unset
  distBuilt,     \* whether dist/index.html exists
  procState,     \* "starting", "listening" or "exited"
  sessionReply   \* the last POST /api/session response

serverVars == <<env, distBuilt, procState, sessionReply>>

VARIABLES
  corsOriginEnv,  \* process.env.CORS_ORIGIN as comma-separated text, <<>> when unset
  hits,           \* the rate limiter's counter of each IP in the current window
  lastApi         \* the last request under /api and what became of it

gatewayVars == <<corsOriginEnv, hits, lastApi>>

VARIABLES
  gcPc,          \* position of the OAuth callback request in its handler
  gcQuery,       \* its query parameters: error and code, "" when absent
  gcToken,       \* the answer of the token exchange
  tokenFile,     \* data/token.json
  tokenWritten,  \* whether the request has written the token file
  redirects,     \* the redirects sent for the request
  linked,        \* history: whether a callback has succeeded, and the email of the last one
  statusReply    \* the last GET /api/google/status response

googleVars ==
  <<gcPc, gcQuery, gcToken, tokenFile, tokenWritten, redirects, linked, statusReply>>

VARIABLES
  vendorAgents,  \* the agents running at the vendor: their id and channel
  serving        \* the fetch of a tab that each start-agent request came from

fleetVars == <<vendorAgents, serving>>

vars == <<agentVars, relayVars, tabVars, configVars, proxyVars, promptVars, serverVars,
          gatewayVars, googleVars, fleetVars>>

\* ------------------------------------------------------------------------
\* Environment, startup validation and POST /api/session
\* ------------------------------------------------------------------------
\* the keys of REQUIRED
RequiredNames ==
  {"AGORA_CUSTOMER_ID", "AGORA_CUSTOMER_SECRET", "AGORA_APP_ID", "LLM_API_KEY",
   "TTS_API_KEY", "STT_API_KEY"}

\* two environments that differ in the value of every secret and in
\* nothing else
RunA ==
  [AGORA_CUSTOMER_ID |-> "customer-id-A", AGORA_CUSTOMER_SECRET |-> "customer-secret-A",
   AGORA_APP_ID |-> "app-id", LLM_API_KEY |-> "llm-key-A", TTS_API_KEY |-> "tts-key-A",
   STT_API_KEY |-> "stt-key-A", AGORA_TOKEN |-> ""]

RunB ==
  [AGORA_CUSTOMER_ID |-> "customer-id-B", AGORA_CUSTOMER_SECRET |-> "customer-secret-B",
   AGORA_APP_ID |-> "app-id", LLM_API_KEY |-> "llm-key-B", TTS_API_KEY |-> "tts-key-B",
   STT_API_KEY |-> "stt-key-B", AGORA_TOKEN |-> ""]

Unset(e, names) == [n \in DOMAIN e |-> IF n \in names THEN "" ELSE e[n]]

Envs ==
  {Unset([e EXCEPT !.AGORA_TOKEN = token], names) :
     e \in {RunA, RunB}, token \in {"", "rtc-token"}, names \in SUBSET RequiredNames}

\* a check that leaves the speech-to-text key out of REQUIRED
missing_WithoutStt(e) == {n \in RequiredNames \ {"STT_API_KEY"} : e[n] = ""}

\* Object.entries(REQUIRED).filter(([, v]) => !v).map(([k]) => k)
missing(e) == {n \in RequiredNames : e[n] = ""}

\* the module body runs: the secrets check, the dist checks, app.listen
Startup ==
  /\ procState = "starting"
  /\ procState' = IF missing(env) # {} \/ ~distBuilt THEN "exited" ELSE "listening"
  /\ UNCHANGED <<env, distBuilt, sessionReply>>

NoSessionReply == [sent |-> FALSE, appId |-> "", token |-> ""]

\* a session endpoint that hands the vendor credentials to the browser
SessionReply_WithCredentials(e) ==
  [sent |-> TRUE, appId |-> e.AGORA_CUSTOMER_ID,
   token |-> IF e.AGORA_CUSTOMER_SECRET = "" THEN "<null>" ELSE e.AGORA_CUSTOMER_SECRET]

\* { appId: AGORA_APP_ID, token: AGORA_TOKEN || null }
SessionReply(e) ==
  [sent |-> TRUE, appId |-> e.AGORA_APP_ID,
   token |-> IF e.AGORA_TOKEN = "" THEN "<null>" ELSE e.AGORA_TOKEN]

Session ==
  /\ sessionReply' = SessionReply(env)
  /\ UNCHANGED <<env, distBuilt, procState>>

\* Buffer.from(`${AGORA_CUSTOMER_ID}:${AGORA_CUSTOMER_SECRET}`).toString("base64")
base64Creds(e) == [base64 |-> <<e.AGORA_CUSTOMER_ID, ":", e.AGORA_CUSTOMER_SECRET>>]

NoCreds == [base64 |-> <<>>]

\* the keys inside the body of the join call
JoinBodyKeys(e) == {e.LLM_API_KEY, e.STT_API_KEY, e.TTS_API_KEY}

ServerInit ==
  /\ env = RunA
  /\ distBuilt = TRUE
  /\ procState = "listening"
  /\ sessionReply = NoSessionReply

\* the process has not run yet: any environment, dist built or not
ServerBoot ==
  /\ env \in Envs
  /\ distBuilt \in BOOLEAN
  /\ procState = "starting"
  /\ sessionReply = NoSessionReply

\* ------------------------------------------------------------------------
\* POST /api/start-agent
\* ------------------------------------------------------------------------
ChannelInputs ==
  {Undef, JsVal("number", 5), JsVal("string", 0),
   JsVal("string", MaxChannelLen), JsVal("string", MaxChannelLen + 1)}

UidInputs == {Undef, Null, JsVal("number", 0)}

RemoteUidsInputs ==
  {Undef, JsVal("number", 0), JsVal("string", 3), JsVal("array", 1)}

StartBodies == [channel : ChannelInputs, uid : UidInputs, remoteUids : RemoteUidsInputs]

NoBody == [channel |-> Undef, uid |-> Undef, remoteUids |-> Undef]

\* the three validation conditions of the handler
ChannelInvalid(b) ==
  \/ ~Truthy(b.channel)
  \/ b.channel.t # "string"
  \/ b.channel.n > MaxChannelLen

UidMissing(b) == b.uid.t \in {"undefined", "null"}

RemoteUidsInvalid(b) == Truthy(b.remoteUids) /\ b.remoteUids.t # "array"

ValidationError(b) ==
  IF ChannelInvalid(b) THEN "Invalid channel name."
  ELSE IF UidMissing(b) THEN "Missing uid."
  ELSE IF RemoteUidsInvalid(b) THEN "remoteUids must be an array."
  ELSE ""

\* what the vendor can answer to a call: a thrown network error, or a
\* response with a status and a body that parses to an object, parses to
\* null, or does not parse
Thrown == [kind |-> "throw", status |-> 0, body |-> "none", agent_id |-> NoAgentId]

VendorStatuses == {200, 409, 503}

JoinAnswers ==
  {Thrown}
  \cup [kind : {"resp"}, status : VendorStatuses, body : {"object"},
        agent_id : AgentIds \cup {NoAgentId, ""}]
  \cup [kind : {"resp"}, status : VendorStatuses, body : {"null", "invalid"},
        agent_id : {NoAgentId}]

LeaveAnswers ==
  {Thrown}
  \cup [kind : {"resp"}, status : {200, 404}, body : {"object"}, agent_id : {NoAgentId}]

\* Response.ok of fetch
Ok(ans) == ans.kind = "resp" /\ ans.status >= 200 /\ ans.status <= 299

\* a fetch to the vendor: the operation, the agent id in its URL, the
\* Authorization header and the keys in its body
Call(op, id) ==
  [op |-> op, id |-> id, ms |-> 0, auth |-> base64Creds(env),
   keys |-> IF op = "join" THEN JoinBodyKeys(env) ELSE {}]

Delay(ms) == [op |-> "delay", id |-> "", ms |-> ms, auth |-> NoCreds, keys |-> {}]

Reply(status, aid, error) ==
  [status |-> status, agent_id |-> aid, error |-> error, ok |-> FALSE]

\* res.json({ ok: true })
StopOk == [status |-> 200, agent_id |-> NoAgentId, error |-> "", ok |-> TRUE]

\* the catch block at the end of the handler
InternalError == Reply(500, NoAgentId, "Internal server error.")

\* callAgoraJoin()
IssueJoin(r, pc) ==
  /\ trace' = [trace EXCEPT ![r] = Append(@, Call("join", ""))]
  /\ reqPc' = [reqPc EXCEPT ![r] = pc]

Respond(r, reply) ==
  /\ responses' = [responses EXCEPT ![r] = Append(@, reply)]
  /\ reqPc' = [reqPc EXCEPT ![r] = "done"]

\* the request arrives: validation, the request body for the vendor with
\* the system prompt, then the first join call; built is FALSE when
\* buildSystemPrompt throws on the saved configuration (a services field
\* that has a length but no forEach, or a null service)
StartAgent(r, b, built) ==
  /\ reqPc[r] = "idle"
  /\ reqRoute' = [reqRoute EXCEPT ![r] = "start-agent"]
  /\ reqBody' = [reqBody EXCEPT ![r] = b]
  /\ IF ValidationError(b) # ""
       THEN /\ Respond(r, Reply(400, NoAgentId, ValidationError(b)))
            /\ UNCHANGED trace
     ELSE IF ~built
       THEN /\ Respond(r, InternalError)
            /\ UNCHANGED trace
       ELSE /\ IssueJoin(r, "join1")
            /\ UNCHANGED responses
  /\ UNCHANGED <<stopBody, staleAgentId, joinAnswers, leaveAnswers>>

\* the tail of the handler: if (!agoraRes.ok) ... else res.json({agent_id})
FinalReply(ans) ==
  IF ~Ok(ans) THEN Reply(ans.status, NoAgentId, "Agora API error")
  ELSE IF ans.body # "object" THEN InternalError
  ELSE Reply(200, ans.agent_id, "")

\* a handler that loops on 409 instead of retrying once
ConflictHandled_Loop(pc, ans) == ans.status = 409

\* the 409 branch is taken for the answer to the first join only
ConflictHandled(pc, ans) == pc = "join1" /\ ans.status = 409

\* a handler that retries without stopping the stale agent
StopsStale_Never(id) == FALSE

\* the stale agent is stopped only when the error body names one
StopsStale(id) == TruthyId(id)

\* the vendor answers a join call
JoinAnswered(r, ans) ==
  /\ reqPc[r] \in {"join1", "join2"}
  /\ joinAnswers' = [joinAnswers EXCEPT ![r] = Append(@, ans)]
  /\ UNCHANGED <<reqRoute, reqBody, stopBody, leaveAnswers>>
  /\ IF ans.kind = "throw"
       THEN /\ Respond(r, InternalError)
            /\ UNCHANGED <<trace, staleAgentId>>
     ELSE IF ConflictHandled(reqPc[r], ans)
       THEN IF ans.body = "null"
              \* errBody is null: reading errBody.agent_id throws
              THEN /\ Respond(r, InternalError)
                   /\ UNCHANGED <<trace, staleAgentId>>
              ELSE /\ staleAgentId' = [staleAgentId EXCEPT ![r] = ans.agent_id]
                   /\ UNCHANGED responses
                   /\ IF StopsStale(ans.agent_id)
                        THEN /\ trace' = [trace EXCEPT ![r] = Append(@, Call("leave", ans.agent_id))]
                             /\ reqPc' = [reqPc EXCEPT ![r] = "leave"]
                        ELSE IssueJoin(r, "join2")
     ELSE /\ Respond(r, FinalReply(ans))
          /\ UNCHANGED <<trace, staleAgentId>>

\* a handler without the inner try: a leave that throws ends the request
LeaveAnswered_Aborts(r, ans) ==
  /\ reqPc[r] = "leave"
  /\ leaveAnswers' = [leaveAnswers EXCEPT ![r] = Append(@, ans)]
  /\ UNCHANGED <<reqRoute, reqBody, stopBody, staleAgentId, joinAnswers>>
  /\ IF ans.kind = "throw"
       THEN /\ Respond(r, InternalError)
            /\ UNCHANGED trace
       ELSE /\ reqPc' = [reqPc EXCEPT ![r] = "delay"]
            /\ UNCHANGED <<trace, responses>>

\* the vendor answers the leave call for the stale agent
LeaveAnswered(r, ans) ==
  /\ reqPc[r] = "leave"
  /\ leaveAnswers' = [leaveAnswers EXCEPT ![r] = Append(@, ans)]
  /\ UNCHANGED <<reqRoute, reqBody, stopBody, staleAgentId, joinAnswers, responses>>
  /\ IF ans.kind = "throw"
       \* caught by the inner catch: the delay is skipped
       THEN IssueJoin(r, "join2")
       ELSE /\ reqPc' = [reqPc EXCEPT ![r] = "delay"]
            /\ UNCHANGED trace

\* a handler that does not await the delay before the retry
DelayElapsed_NoWait(r) ==
  /\ reqPc[r] = "delay"
  /\ trace' = [trace EXCEPT ![r] = Append(@, Call("join", ""))]
  /\ reqPc' = [reqPc EXCEPT ![r] = "join2"]
  /\ UNCHANGED <<reqRoute, reqBody, stopBody, staleAgentId, joinAnswers, leaveAnswers, responses>>

\* the setTimeout of the delay fires: the join is retried once
DelayElapsed(r) ==
  /\ reqPc[r] = "delay"
  /\ trace' = [trace EXCEPT ![r] = @ \o <<Delay(StaleAgentDelayMs), Call("join", "")>>]
  /\ reqPc' = [reqPc EXCEPT ![r] = "join2"]
  /\ UNCHANGED <<reqRoute, reqBody, stopBody, staleAgentId, joinAnswers, leaveAnswers, responses>>

\* ------------------------------------------------------------------------
\* POST /api/stop-agent
\* ------------------------------------------------------------------------
\* the agentId field of the body: its type, its length and its text
IdVal(t, n, s) == [t |-> t, n |-> n, s |-> s]

NoStopBody == IdVal("undefined", 0, "")

StopBodies ==
  {IdVal("undefined", 0, ""), IdVal("null", 0, ""), IdVal("number", 7, ""),
   IdVal("string", 0, ""), IdVal("string", 6, "agentA"), IdVal("string", 6, "agentB"),
   IdVal("string", MaxAgentIdLen, "agentOfFullLength"),
   IdVal("string", MaxAgentIdLen + 1, "agentTooLong")}

\* a validation that does not bound the length
AgentIdInvalid_Unbounded(b) ==
  \/ b.t \in {"undefined", "null"}
  \/ b.n = 0
  \/ b.t # "string"

\* !agentId || typeof agentId !== "string" || agentId.length > 128
AgentIdInvalid(b) ==
  \/ b.t \in {"undefined", "null"}
  \/ b.n = 0
  \/ b.t # "string"
  \/ b.n > MaxAgentIdLen

\* the request arrives: validation, then the leave call
StopAgent(r, b) ==
  /\ reqPc[r] = "idle"
  /\ reqRoute' = [reqRoute EXCEPT ![r] = "stop-agent"]
  /\ stopBody' = [stopBody EXCEPT ![r] = b]
  /\ IF AgentIdInvalid(b)
       THEN /\ Respond(r, Reply(400, NoAgentId, "Invalid agentId."))
            /\ UNCHANGED trace
       ELSE /\ trace' = [trace EXCEPT ![r] = Append(@, Call("leave", b.s))]
            /\ reqPc' = [reqPc EXCEPT ![r] = "stop"]
            /\ UNCHANGED responses
  /\ UNCHANGED <<reqBody, staleAgentId, joinAnswers, leaveAnswers>>

\* a handler without the try/catch around the vendor call
StopAgentAnswered_Uncaught(r, ans) ==
  /\ reqPc[r] = "stop"
  /\ leaveAnswers' = [leaveAnswers EXCEPT ![r] = Append(@, ans)]
  /\ UNCHANGED <<reqRoute, reqBody, stopBody, staleAgentId, trace, joinAnswers>>
  /\ IF ans.kind = "throw"
       THEN /\ reqPc' = [reqPc EXCEPT ![r] = "done"]
            /\ UNCHANGED responses
     ELSE IF ~Ok(ans) THEN Respond(r, Reply(ans.status, NoAgentId, "Agora API error"))
     ELSE Respond(r, StopOk)

\* the vendor answers the leave call
StopAgentAnswered(r, ans) ==
  /\ reqPc[r] = "stop"
  /\ leaveAnswers' = [leaveAnswers EXCEPT ![r] = Append(@, ans)]
  /\ UNCHANGED <<reqRoute, reqBody, stopBody, staleAgentId, trace, joinAnswers>>
  /\ IF ans.kind = "throw" THEN Respond(r, InternalError)
     ELSE IF ~Ok(ans) THEN Respond(r, Reply(ans.status, NoAgentId, "Agora API error"))
     ELSE Respond(r, StopOk)

\* ------------------------------------------------------------------------
\* Agent event log: POST /api/agent-log and GET /api/agent-events
\* ------------------------------------------------------------------------
Conns == 1..MaxConns

\* the type field of a POST /api/agent-log body
EventTypes == {"tool_start", "tool_success"}

\* a field that the body does not have
NoField == "<undefined>"

\* req.body || {}: a request without a body has none of the fields
NoLogBody == [type |-> NoField, tool |-> NoField, label |-> NoField, args |-> NoField]

Described(type) ==
  [type |-> type, tool |-> "check_availability", label |-> "Checking the calendar",
   args |-> "{}"]

\* the bodies of the POST /api/agent-log requests
LogBodies ==
  {NoLogBody, Described(""), Described("tool_start"),
   [NoLogBody EXCEPT !.type = "tool_success"]}

\* the event built by the handler; ts is Date.now(), modelled as the
\* position of the event in the publish order
Event(body, ts) ==
  [type |-> body.type, tool |-> body.tool, label |-> body.label, args |-> body.args,
   ts |-> ts]

\* a handler that takes every body
TypeMissing_Never(body) == FALSE

\* if (!type)
TypeMissing(body) == body.type \in {NoField, ""}

LogReply(status, ok, error) == [status |-> status, ok |-> ok, error |-> error]

\* a buffer that is never trimmed
PushBounded_NoShift(buf, e) == Append(buf, e)

\* agentLogBuffer.push(event); if (length > 50) shift()
PushBounded(buf, e) ==
  LET b == Append(buf, e)
  IN IF Len(b) > LogBufferCap THEN Tail(b) ELSE b

\* a broadcast that forgets the connected subscribers
WriteClients_None(e) == UNCHANGED stream

\* agentLogClients.forEach((res) => res.write(payload))
WriteClients(e) ==
  stream' = [c \in Conns |->
               IF c \in agentLogClients THEN Append(stream[c], e) ELSE stream[c]]

broadcastAgentLog(e) ==
  /\ WriteClients(e)
  /\ agentLogBuffer' = PushBounded(agentLogBuffer, e)

\* POST /api/agent-log
AgentLogPost(body, maxEvents) ==
  /\ UNCHANGED <<agentLogClients, connState, connectedAt>>
  /\ logBody' = body
  /\ IF TypeMissing(body)
       THEN /\ logReply' = LogReply(400, FALSE, "missing type")
            /\ UNCHANGED <<agentLogBuffer, published, stream>>
       ELSE /\ Len(published) < maxEvents
            /\ broadcastAgentLog(Event(body, Len(published) + 1))
            /\ published' = Append(published, Event(body, Len(published) + 1))
            /\ logReply' = LogReply(200, TRUE, "")

\* GET /api/agent-events: replay the buffer, then register the response
AgentEventsGet(c) ==
  /\ connState[c] = "idle"
  /\ stream' = [stream EXCEPT ![c] = @ \o agentLogBuffer]
  /\ agentLogClients' = agentLogClients \cup {c}
  /\ connState' = [connState EXCEPT ![c] = "open"]
  /\ connectedAt' = [connectedAt EXCEPT ![c] = Len(published)]
  /\ UNCHANGED <<agentLogBuffer, published, logReply, logBody>>

\* a close notification that leaves the response in the set
AgentEventsClose_KeepsClient(c) ==
  /\ connState[c] = "open"
  /\ connState' = [connState EXCEPT ![c] = "closed"]
  /\ UNCHANGED <<agentLogClients, agentLogBuffer, published, stream, connectedAt, logReply,
                 logBody>>

\* req.on("close")
AgentEventsClose(c) ==
  /\ connState[c] = "open"
  /\ agentLogClients' = agentLogClients \ {c}
  /\ connState' = [connState EXCEPT ![c] = "closed"]
  /\ UNCHANGED <<agentLogBuffer, published, stream, connectedAt, logReply, logBody>>

RelayInit ==
  /\ agentLogClients = {}
  /\ agentLogBuffer = <<>>
  /\ published = <<>>
  /\ stream = [c \in Conns |-> <<>>]
  /\ connState = [c \in Conns |-> "idle"]
  /\ connectedAt = [c \in Conns |-> 0]
  /\ logReply = LogReply(0, FALSE, "")
  /\ logBody = NoLogBody


\* ------------------------------------------------------------------------
\* Browser tabs: the agent controls of src/main.js
\* ------------------------------------------------------------------------
Tabs == 1..MaxTabs

Channels == {"test", "other"}

\* the uids of the remote users
Uids == 1..MaxUsers

\* localStorage.getItem of an absent key
NoItem == "<null>"

NoLock == [active |-> NoItem, id |-> NoItem, channel |-> NoItem]

\* a fetch of a tab that has not been answered yet
Fetch(t, op, channel, id) == [tab |-> t, op |-> op, channel |-> channel, id |-> id]

\* the other tabs get a storage event when a tab writes the lock keys
NotifyOthers(t, changed) ==
  storageDirty' = [u \in Tabs |-> IF u # t /\ changed THEN TRUE ELSE storageDirty[u]]

\* updateControls: the disabled state of #btn-agent
BtnDisabled(joined, running, lock, channel) ==
  \/ ~joined
  \/ (~running /\ lock.active = "true" /\ lock.channel = channel)

updateControls(t) ==
  agentBtnDisabled' = [agentBtnDisabled EXCEPT ![t] =
    BtnDisabled(isJoined'[t], isAgentRunning'[t], lsLock', channelInput'[t])]

\* initAgentPage up to its first await: the lock keys are cleared
InitAgentPage(t) ==
  /\ tabPc[t] = "closed"
  /\ UNCHANGED <<present, remoteUsers, subscribing, leftSince>>
  /\ fetchOk' = TRUE
  /\ tabPc' = [tabPc EXCEPT ![t] = "session"]
  /\ lsLock' = NoLock
  /\ NotifyOthers(t, lsLock # NoLock)
  /\ UNCHANGED <<isJoined, isAgentRunning, agentId, channelInput, agentBtnDisabled,
                 runningChannel, pending>>

\* initAgentPage after POST /api/session: the handlers are installed
SessionAnswered(t, ok) ==
  /\ tabPc[t] = "session"
  /\ UNCHANGED <<present, remoteUsers, subscribing, leftSince>>
  /\ fetchOk' = TRUE
  /\ tabPc' = [tabPc EXCEPT ![t] = IF ok THEN "ready" ELSE "broken"]
  /\ UNCHANGED <<isJoined, isAgentRunning, agentId, channelInput, storageDirty,
                 runningChannel, pending, lsLock>>
  /\ IF ok THEN updateControls(t) ELSE UNCHANGED agentBtnDisabled

\* the user edits #channel-input
SetChannel(t, ch) ==
  /\ tabPc[t] = "ready"
  /\ UNCHANGED <<present, remoteUsers, subscribing, leftSince>>
  /\ fetchOk' = TRUE
  /\ channelInput[t] # ch
  /\ channelInput' = [channelInput EXCEPT ![t] = ch]
  /\ UNCHANGED <<tabPc, isJoined, isAgentRunning, agentId, agentBtnDisabled, storageDirty,
                 runningChannel, pending, lsLock>>

\* joinChannel when the SDK calls succeed (a failed join changes nothing here)
JoinChannel(t) ==
  /\ tabPc[t] = "ready"
  /\ UNCHANGED <<present, remoteUsers, subscribing, leftSince>>
  /\ fetchOk' = TRUE
  /\ ~isJoined[t]
  /\ isJoined' = [isJoined EXCEPT ![t] = TRUE]
  /\ UNCHANGED <<tabPc, isAgentRunning, agentId, channelInput, storageDirty,
                 runningChannel, pending, lsLock>>
  /\ updateControls(t)

\* the storage listener
StorageEvent(t) ==
  /\ tabPc[t] = "ready"
  /\ UNCHANGED <<present, remoteUsers, subscribing, leftSince>>
  /\ fetchOk' = TRUE
  /\ storageDirty[t]
  /\ storageDirty' = [storageDirty EXCEPT ![t] = FALSE]
  /\ UNCHANGED <<tabPc, isJoined, isAgentRunning, agentId, channelInput,
                 runningChannel, pending, lsLock>>
  /\ updateControls(t)

\* startAgent up to its fetch
startAgent(t) ==
  /\ UNCHANGED <<tabPc, isJoined, isAgentRunning, agentId, channelInput, agentBtnDisabled,
                 storageDirty, runningChannel, lsLock>>
  /\ IF lsLock.active = "true" /\ lsLock.channel = channelInput[t]
       THEN UNCHANGED pending
       ELSE /\ BagCardinality(pending) < MaxPending
            /\ pending' = pending (+) SetToBag({Fetch(t, "start", channelInput[t], NoAgentId)})

\* stopAgent up to its fetch; op tells whether leaveChannel is awaiting it
stopAgentFetch(t, op) ==
  /\ BagCardinality(pending) < MaxPending
  /\ pending' = pending (+) SetToBag({Fetch(t, op, NoItem, agentId[t])})

\* a click on #btn-agent: toggleAgent
ToggleAgent(t) ==
  /\ tabPc[t] = "ready"
  /\ UNCHANGED <<present, remoteUsers, subscribing, leftSince>>
  /\ fetchOk' = TRUE
  /\ ~agentBtnDisabled[t]
  /\ IF isAgentRunning[t]
       THEN /\ UNCHANGED <<tabPc, isJoined, isAgentRunning, agentId, channelInput,
                           agentBtnDisabled, storageDirty, runningChannel, lsLock>>
            /\ IF agentId[t] = NoAgentId
                 THEN UNCHANGED pending
                 ELSE stopAgentFetch(t, "stop")
       ELSE startAgent(t)

\* startAgent after its fetch
StartAnswered(f, ok, id) ==
  /\ BagIn(f, pending)
  /\ UNCHANGED <<present, remoteUsers, subscribing, leftSince>>
  /\ f.op = "start"
  /\ pending' = pending (-) SetToBag({f})
  /\ fetchOk' = ok
  /\ UNCHANGED <<tabPc, isJoined, channelInput>>
  /\ IF ok
       THEN /\ agentId' = [agentId EXCEPT ![f.tab] = id]
            /\ isAgentRunning' = [isAgentRunning EXCEPT ![f.tab] = TRUE]
            /\ runningChannel' = [runningChannel EXCEPT ![f.tab] = f.channel]
            /\ lsLock' = [active |-> "true", id |-> id, channel |-> f.channel]
            /\ NotifyOthers(f.tab, lsLock'.active # lsLock.active \/ lsLock'.channel # lsLock.channel)
            /\ updateControls(f.tab)
       ELSE UNCHANGED <<agentId, isAgentRunning, runningChannel, lsLock, storageDirty,
                        agentBtnDisabled>>

\* the body of stopAgent after a successful answer
StopSucceeded(t) ==
  /\ agentId' = [agentId EXCEPT ![t] = NoAgentId]
  /\ isAgentRunning' = [isAgentRunning EXCEPT ![t] = FALSE]
  /\ lsLock' = NoLock
  /\ NotifyOthers(t, lsLock.active # NoItem \/ lsLock.channel # NoItem)

\* stopAgent after its fetch, called from toggleAgent
StopAnswered(f, ok) ==
  /\ BagIn(f, pending)
  /\ UNCHANGED <<present, remoteUsers, subscribing, leftSince>>
  /\ f.op = "stop"
  /\ pending' = pending (-) SetToBag({f})
  /\ fetchOk' = ok
  /\ UNCHANGED <<tabPc, isJoined, channelInput, runningChannel>>
  /\ IF ok
       THEN /\ StopSucceeded(f.tab)
            /\ updateControls(f.tab)
       ELSE UNCHANGED <<agentId, isAgentRunning, lsLock, storageDirty, agentBtnDisabled>>

\* leaveChannel, when client.leave() succeeds, up to its await of stopAgent
LeaveChannel(t) ==
  /\ tabPc[t] = "ready"
  /\ fetchOk' = TRUE
  /\ isJoined[t]
  /\ UNCHANGED <<tabPc, isAgentRunning, agentId, channelInput, storageDirty,
                 runningChannel, lsLock>>
  \* after client.leave() the SDK reports no remote user and no event
  /\ present' = [present EXCEPT ![t] = {}]
  /\ leftSince' = [leftSince EXCEPT ![t] = {}]
  /\ UNCHANGED subscribing
  /\ IF isAgentRunning[t] /\ agentId[t] # NoAgentId
       THEN /\ stopAgentFetch(t, "leaveStop")
            /\ UNCHANGED <<isJoined, agentBtnDisabled, remoteUsers>>
       ELSE /\ isJoined' = [isJoined EXCEPT ![t] = FALSE]
            /\ remoteUsers' = [remoteUsers EXCEPT ![t] = {}]
            /\ UNCHANGED pending
            /\ updateControls(t)

\* leaveChannel after stopAgent returned
LeaveStopAnswered(f, ok) ==
  /\ BagIn(f, pending)
  /\ f.op = "leaveStop"
  /\ pending' = pending (-) SetToBag({f})
  /\ fetchOk' = ok
  /\ isJoined' = [isJoined EXCEPT ![f.tab] = FALSE]
  /\ remoteUsers' = [remoteUsers EXCEPT ![f.tab] = {}]
  /\ UNCHANGED <<tabPc, channelInput, runningChannel, present, subscribing, leftSince>>
  /\ IF ok
       THEN StopSucceeded(f.tab)
       ELSE UNCHANGED <<agentId, isAgentRunning, lsLock, storageDirty>>
  /\ updateControls(f.tab)

\* the tab is closed or reloaded: beforeunload, then the page state is gone
Unload(t) ==
  /\ tabPc[t] # "closed"
  /\ tabPc' = [tabPc EXCEPT ![t] = "closed"]
  /\ fetchOk' = TRUE
  /\ lsLock' = IF tabPc[t] = "ready" /\ isAgentRunning[t] THEN NoLock ELSE lsLock
  /\ NotifyOthers(t, lsLock' # lsLock)
  /\ isJoined' = [isJoined EXCEPT ![t] = FALSE]
  /\ isAgentRunning' = [isAgentRunning EXCEPT ![t] = FALSE]
  /\ agentId' = [agentId EXCEPT ![t] = NoAgentId]
  /\ channelInput' = [channelInput EXCEPT ![t] = "test"]
  /\ agentBtnDisabled' = [agentBtnDisabled EXCEPT ![t] = TRUE]
  /\ runningChannel' = [runningChannel EXCEPT ![t] = NoItem]
  /\ pending' = [f \in {g \in DOMAIN pending : g.tab # t} |-> pending[f]]
  /\ present' = [present EXCEPT ![t] = {}]
  /\ remoteUsers' = [remoteUsers EXCEPT ![t] = {}]
  /\ subscribing' = [subscribing EXCEPT ![t] = [u \in Uids |-> 0]]
  /\ leftSince' = [leftSince EXCEPT ![t] = {}]

\* ------------------------------------------------------------------------
\* Remote users of a tab: the handlers installed by initializeClient
\* ------------------------------------------------------------------------
\* client.on("user-joined")
UserJoined(t, u) ==
  /\ isJoined[t]
  /\ u \notin present[t]
  /\ present' = [present EXCEPT ![t] = @ \cup {u}]
  /\ remoteUsers' = [remoteUsers EXCEPT ![t] = @ \cup {u}]
  /\ leftSince' = [leftSince EXCEPT ![t] = @ \ {u}]
  /\ UNCHANGED subscribing

\* client.on("user-published") up to await client.subscribe(user, mediaType)
UserPublished(t, u) ==
  /\ isJoined[t]
  /\ u \in present[t]
  /\ subscribing[t][u] < MaxPending
  /\ subscribing' = [subscribing EXCEPT ![t][u] = @ + 1]
  /\ leftSince' = [leftSince EXCEPT ![t] = @ \ {u}]
  /\ UNCHANGED <<present, remoteUsers>>

\* client.on("user-published") after the await: the rest of the handler
\* (remoteUsers[user.uid] = { user, joinedAt }) runs when subscribe
\* resolved, nothing when it rejected
SubscribeAnswered(t, u, resolved) ==
  /\ tabPc[t] = "ready"
  /\ subscribing[t][u] > 0
  /\ subscribing' = [subscribing EXCEPT ![t][u] = @ - 1]
  /\ remoteUsers' = [remoteUsers EXCEPT ![t] = IF resolved THEN @ \cup {u} ELSE @]
  /\ UNCHANGED <<present, leftSince>>

\* client.on("user-left")
UserLeft(t, u) ==
  /\ isJoined[t]
  /\ u \in present[t]
  /\ present' = [present EXCEPT ![t] = @ \ {u}]
  /\ remoteUsers' = [remoteUsers EXCEPT ![t] = @ \ {u}]
  /\ leftSince' = [leftSince EXCEPT ![t] = @ \cup {u}]
  /\ UNCHANGED subscribing

TabInit ==
  /\ tabPc = [t \in Tabs |-> "closed"]
  /\ isJoined = [t \in Tabs |-> FALSE]
  /\ isAgentRunning = [t \in Tabs |-> FALSE]
  /\ agentId = [t \in Tabs |-> NoAgentId]
  /\ channelInput = [t \in Tabs |-> "test"]
  /\ agentBtnDisabled = [t \in Tabs |-> TRUE]
  /\ storageDirty = [t \in Tabs |-> FALSE]
  /\ runningChannel = [t \in Tabs |-> NoItem]
  /\ pending = EmptyBag
  /\ lsLock = NoLock
  /\ fetchOk = TRUE
  /\ present = [t \in Tabs |-> {}]
  /\ remoteUsers = [t \in Tabs |-> {}]
  /\ subscribing = [t \in Tabs |-> [u \in Uids |-> 0]]
  /\ leftSince = [t \in Tabs |-> {}]


\* ------------------------------------------------------------------------
\* JSON documents: a document is a record of fields, a field is absent or
\* holds a JSON value; numbers are written as their literal
\* ------------------------------------------------------------------------
JAbsent == [t |-> "absent", v |-> ""]

JNull == [t |-> "null", v |-> "null"]

JStr(str) == [t |-> "string", v |-> str]

JNum(lit) == [t |-> "number", v |-> lit]

JTrue == [t |-> "boolean", v |-> "true"]

\* number literals beyond the range of a double
OverflowLiterals == {"1e999"}

\* JSON.parse of a value: a number literal out of range becomes Infinity
JsonParseValue(x) ==
  IF x.t = "number" /\ x.v \in OverflowLiterals THEN JNum("Infinity") ELSE x

\* JSON.stringify of a value: a non-finite number is written as null
JsonStringifyValue(x) ==
  IF x.t = "number" /\ x.v \in {"Infinity", "-Infinity", "NaN"} THEN JNull ELSE x

JsonParse(doc) == [f \in DOMAIN doc |-> JsonParseValue(doc[f])]

JsonStringify(obj) == [f \in DOMAIN obj |-> JsonStringifyValue(obj[f])]

\* ------------------------------------------------------------------------
\* Business configuration: POST /api/business/save, GET /api/business/load
\* ------------------------------------------------------------------------
\* the JSON bodies of the save requests, as sent
ConfigBodies ==
  [name : {JAbsent, JStr("Classic Cuts")},
   taxRate : {JAbsent, JNum("0"), JNum("8.5"), JNum("1e999")},
   calendarConnected : {JAbsent},
   calendarEmail : {JAbsent}]

\* a document that may be missing: the file before the first save, the
\* null answer of a load
NoFile ==
  [present |-> FALSE,
   doc |-> [name |-> JAbsent, taxRate |-> JAbsent, calendarConnected |-> JAbsent,
            calendarEmail |-> JAbsent]]

Document(doc) == [present |-> TRUE, doc |-> doc]

\* express.json(): req.body is the parsed request body
BodyParsed(text) == JsonParse(text)

\* loadBusinessConfig: the parsed file, or null when there is none
loadBusinessConfig ==
  IF configFile.present THEN Document(JsonParse(configFile.doc)) ELSE NoFile

\* POST /api/business/save; writeOk is the outcome of fs.writeFileSync
BusinessSave(text, writeOk) ==
  /\ UNCHANGED loadReply
  /\ IF writeOk
       THEN /\ configFile' = Document(JsonStringify(BodyParsed(text)))
            /\ lastSaved' = Document(text)
            /\ saveReply' = 200
       ELSE /\ saveReply' = 500
            /\ UNCHANGED <<configFile, lastSaved>>

\* GET /api/business/load: res.json(config) or res.json(null)
BusinessLoad ==
  /\ loadReply' = [body |-> IF loadBusinessConfig.present
                              THEN Document(JsonStringify(loadBusinessConfig.doc))
                              ELSE NoFile,
                   saved |-> lastSaved]
  /\ UNCHANGED <<configFile, lastSaved, saveReply>>

ConfigInit ==
  /\ configFile = NoFile
  /\ lastSaved = NoFile
  /\ saveReply = 0
  /\ loadReply = [body |-> NoFile, saved |-> NoFile]

\* ------------------------------------------------------------------------
\* LLM reverse proxy: POST /api/llm/chat/completions
\* ------------------------------------------------------------------------
\* a header that is not sent
NoHeader == "<none>"

\* the headers of an incoming request
ProxyHeaders ==
  [authorization : {NoHeader, "Bearer k1"},
   contentType : {"application/json", "application/json; charset=utf-8"},
   xRequestId : {NoHeader, "req-1"}]

\* the JSON bodies of the chat-completion requests, as sent
ChatBodies ==
  [model : {JAbsent, JStr("gemini")},
   temperature : {JAbsent, JNum("0.7"), JNum("1e999")}]

NoRequest ==
  [headers |-> [authorization |-> NoHeader, contentType |-> NoHeader, xRequestId |-> NoHeader],
   body |-> [model |-> JAbsent, temperature |-> JAbsent]]

Chunks == {"c1", "c2"}

ChunkSeqs == UNION {[1..n -> Chunks] : n \in 0..MaxChunks}

UpstreamHeaderNames == {"content-type", "content-encoding", "transfer-encoding"}

\* what the upstream can answer: fetch rejects, or a response
UpstreamThrown == [kind |-> "throw", status |-> 0, headers |-> {}, hasBody |-> FALSE, chunks |-> <<>>]

UpstreamAnswers ==
  {UpstreamThrown}
  \cup [kind : {"resp"}, status : {200, 429}, headers : SUBSET UpstreamHeaderNames,
        hasBody : {TRUE}, chunks : ChunkSeqs]
  \cup [kind : {"resp"}, status : {200, 429}, headers : SUBSET UpstreamHeaderNames,
        hasBody : {FALSE}, chunks : {<<>>}]

\* a proxy that passes the incoming headers on as they are
ForwardedHeaders_All(h) == h

\* the headers option of the fetch: a fixed Content-Type, and Authorization
\* when the incoming request has one
ForwardedHeaders(h) ==
  [authorization |-> h.authorization, contentType |-> "application/json", xRequestId |-> NoHeader]

\* the request arrives and is sent upstream
ProxyRequest(h, body) ==
  /\ proxyPc = "idle"
  /\ proxyReq' = [headers |-> h, body |-> body]
  /\ upstreamReq' = [headers |-> ForwardedHeaders(h), body |-> JsonStringify(BodyParsed(body))]
  /\ proxyPc' = "fetching"
  /\ UNCHANGED <<upstream, upRead, resStatus, resHeaders, resBody, resEnded>>

\* the fetch settles: status and headers are copied, the body is piped
UpstreamAnswered(ans) ==
  /\ proxyPc = "fetching"
  /\ upstream' = ans
  /\ UNCHANGED <<proxyReq, upstreamReq, upRead>>
  /\ IF ans.kind = "throw"
       THEN /\ resStatus' = 502
            /\ resHeaders' = {"content-type"}
            /\ resBody' = <<"LLM proxy failed">>
            /\ resEnded' = TRUE
            /\ proxyPc' = "done"
       ELSE /\ resStatus' = ans.status
            /\ resHeaders' = ans.headers \ {"content-encoding", "transfer-encoding", "connection"}
            /\ resBody' = <<>>
            /\ resEnded' = ~ans.hasBody
            /\ proxyPc' = IF ans.hasBody THEN "streaming" ELSE "done"

\* a pipe that holds the chunks back until the upstream body has ended
PipeData_Buffered ==
  /\ proxyPc = "streaming"
  /\ upRead < Len(upstream.chunks)
  /\ upRead' = upRead + 1
  /\ resBody' = IF upRead' = Len(upstream.chunks) THEN upstream.chunks ELSE resBody
  /\ UNCHANGED <<proxyPc, proxyReq, upstreamReq, upstream, resStatus, resHeaders, resEnded>>

\* Readable.fromWeb(upstream.body).pipe(res): a chunk is read and written
PipeData ==
  /\ proxyPc = "streaming"
  /\ upRead < Len(upstream.chunks)
  /\ upRead' = upRead + 1
  /\ resBody' = Append(resBody, upstream.chunks[upRead + 1])
  /\ UNCHANGED <<proxyPc, proxyReq, upstreamReq, upstream, resStatus, resHeaders, resEnded>>

\* the upstream body ends: pipe ends the response
PipeEnd ==
  /\ proxyPc = "streaming"
  /\ upRead = Len(upstream.chunks)
  /\ resEnded' = TRUE
  /\ proxyPc' = "done"
  /\ UNCHANGED <<proxyReq, upstreamReq, upstream, upRead, resStatus, resHeaders, resBody>>

\* the upstream body fails midway: pipe stops, the response is left open
PipeError ==
  /\ proxyPc = "streaming"
  /\ upRead < Len(upstream.chunks)
  /\ proxyPc' = "aborted"
  /\ UNCHANGED <<proxyReq, upstreamReq, upstream, upRead, resStatus, resHeaders, resBody, resEnded>>

ProxyInit ==
  /\ proxyPc = "idle"
  /\ proxyReq = NoRequest
  /\ upstreamReq = NoRequest
  /\ upstream = UpstreamThrown
  /\ upRead = 0
  /\ resStatus = 0
  /\ resHeaders = {}
  /\ resBody = <<>>
  /\ resEnded = FALSE

\* ------------------------------------------------------------------------
\* buildSystemPrompt(config)
\* ------------------------------------------------------------------------
\* the prompt is text: a sequence of lines, each a sequence of fragments
Txt(s) == [t |-> "text", s |-> s, n |-> 0]

Num(n) == [t |-> "num", s |-> "", n |-> n]

\* Number.prototype.toFixed(2), kept in hundredths
Fixed2(hundredths) == [t |-> "fixed2", s |-> "", n |-> hundredths]

dayNames == <<"monday", "tuesday", "wednesday", "thursday", "friday", "saturday", "sunday">>

Services ==
  { [name |-> "Classic Haircut", duration |-> 30, price |-> 25,
     description |-> "Traditional scissor or clipper cut"],
    [name |-> "Beard Trim", duration |-> 0, price |-> 0, description |-> ""] }

ServiceLists == UNION {[1..n -> Services] : n \in 0..MaxServices}

Day(enabled) == [enabled |-> enabled, open |-> "09:00", close |-> "17:00"]

HoursInputs ==
  {[d \in {dayNames[i] : i \in 1..Len(dayNames)} |-> Day(d = "monday")]}

NoRules == [minNotice |-> 0, maxAdvance |-> 0, defaultDuration |-> 0, bufferTime |-> 0]

RulesInputs ==
  {NoRules, [minNotice |-> 2, maxAdvance |-> 14, defaultDuration |-> 45, bufferTime |-> 10]}

ConfigShape(names, lists, rules, taxRates) ==
  [null : {FALSE}, name : names, description : {"A traditional barbershop"},
   phone : {"555-0100"}, email : {""}, address : {""}, services : lists,
   hours : HoursInputs, bookingRules : rules, currency : {""}, taxRate : taxRates]

\* the configuration is null when no file was saved
NullConfig ==
  [null |-> TRUE, name |-> "", description |-> "", phone |-> "", email |-> "",
   address |-> "", services |-> <<>>, hours |-> CHOOSE h \in HoursInputs : TRUE,
   bookingRules |-> NoRules, currency |-> "", taxRate |-> 0]

PromptConfigs ==
  {NullConfig}
  \cup ConfigShape({""}, {<<>>}, {NoRules}, {0})
  \cup ConfigShape({"Classic Cuts"}, ServiceLists, {NoRules}, {0})
  \cup ConfigShape({"Classic Cuts"}, {<<s>> : s \in Services}, RulesInputs \ {NoRules}, {10})

\* an instant: the calendar day, the minute of the day, the second of the
\* minute; two seconds of each of two minutes of a day, and the next midnight
Clock ==
  {t \in [date : 0..1, minute : 0..1, second : 0..1] :
     t.date = 0 \/ (t.minute = 0 /\ t.second = 0)}

NotBefore(t, u) ==
  \/ t.date > u.date
  \/ t.date = u.date /\ t.minute > u.minute
  \/ t.date = u.date /\ t.minute = u.minute /\ t.second >= u.second

\* toLocaleDateString with weekday, year, month and day
currentDate(t) == [t |-> "date", s |-> "", n |-> t.date]

\* a clock text that carries the seconds
currentTime_WithSeconds(t) == [t |-> "time", s |-> "", n |-> t.minute + t.minute + t.second + 2]

\* toLocaleTimeString with hour and minute only
currentTime(t) == [t |-> "time", s |-> "", n |-> t.minute]

\* a || b on strings and numbers
OrStr(a, b) == IF a = "" THEN b ELSE a

OrNum(a, b) == IF a = 0 THEN b ELSE a

\* process.env.AGENT_SYSTEM_PROMPT, unset
AGENT_SYSTEM_PROMPT == ""

DefaultPrompt ==
  << <<Txt(OrStr(AGENT_SYSTEM_PROMPT,
                 "You are a helpful AI receptionist. You can check availability, book appointments, and cancel appointments."))>> >>

TaxNote(taxRate) ==
  IF taxRate > 0 THEN <<Txt(", +"), Num(taxRate), Txt("% tax")>> ELSE <<>>

\* a list that numbers its services from zero
ServiceLine_FromZero(s, i, currency, taxRate) == <<Num(i - 1), Txt(". "), Txt(s.name)>>

\* the body of services.forEach((s, i) => ...), i counted from 1 here
ServiceLine(s, i, currency, taxRate) ==
  <<Num(i), Txt(". "), Txt(s.name)>>
  \o (IF s.duration # 0 THEN <<Txt(" - "), Num(s.duration), Txt(" minutes")>> ELSE <<>>)
  \o (IF s.price > 0
        THEN <<Txt(" - "), Txt(currency), Txt(" "), Num(s.price)>>
             \o (IF taxRate > 0
                   THEN <<Txt(" (+ "), Num(taxRate), Txt("% tax = "), Txt(currency),
                          Txt(" "), Fixed2(s.price * (100 + taxRate)), Txt(" total)")>>
                   ELSE <<>>)
        ELSE <<>>)
  \o (IF s.description # "" THEN <<Txt(". "), Txt(s.description)>> ELSE <<>>)

ServicesSection(services, currency, taxRate) ==
  IF Len(services) > 0
    THEN << <<>>,
            <<Txt("## Services & Pricing (currency: "), Txt(currency)>>
              \o TaxNote(taxRate) \o <<Txt(")")>> >>
         \o [i \in 1..Len(services) |-> ServiceLine(services[i], i, currency, taxRate)]
    ELSE << <<>>, <<Txt("## Services")>>,
            <<Txt("- No specific services have been configured. Let the caller know and take a message.")>> >>

\* d.charAt(0).toUpperCase() + d.slice(1)
Capitalized(d) == [t |-> "capitalized", s |-> d, n |-> 0]

HoursSection(hours) ==
  LET openDays == SelectSeq(dayNames, LAMBDA d : hours[d].enabled)
      closedDays == SelectSeq(dayNames, LAMBDA d : ~hours[d].enabled)
  IN  IF Len(openDays) > 0
        THEN << <<>>, <<Txt("## Working Hours")>> >>
             \o [i \in 1..Len(openDays) |->
                   <<Txt("- "), Capitalized(openDays[i]), Txt(": "),
                     Txt(hours[openDays[i]].open), Txt(" - "), Txt(hours[openDays[i]].close)>>]
             \o (IF Len(closedDays) > 0
                   THEN << <<Txt("- Closed on: ")>>
                           \o [i \in 1..Len(closedDays) |-> Capitalized(closedDays[i])] >>
                   ELSE <<>>)
        ELSE <<>>

RulesSection(rules) ==
  << <<>>, <<Txt("## Appointment Rules")>>,
     <<Txt("- Appointments must be booked at least "), Num(OrNum(rules.minNotice, 1)),
       Txt(" hour(s) in advance.")>>,
     <<Txt("- Bookings are accepted up to "), Num(OrNum(rules.maxAdvance, 30)),
       Txt(" days in advance.")>>,
     <<Txt("- Default appointment length is "), Num(OrNum(rules.defaultDuration, 30)),
       Txt(" minutes.")>> >>
  \o (IF rules.bufferTime > 0
        THEN << <<Txt("- There is a "), Num(rules.bufferTime),
                 Txt("-minute gap between appointments.")>> >>
        ELSE <<>>)

\* the fixed text about calls: its numbered steps are indented by two spaces
CallHandlingSection ==
  << <<>>, <<Txt("## How to Handle Calls")>>,
     <<Txt("Always answer naturally as a human receptionist would.")>>,
     <<Txt("Never say things like let me check the calendar.")>>,
     <<Txt("When a caller wants to BOOK an appointment:")>>,
     <<Txt("  "), Num(1), Txt(". "), Txt("Ask which service they want.")>>,
     <<Txt("  "), Num(2), Txt(". "), Txt("Ask for their preferred date.")>>,
     <<Txt("  "), Num(3), Txt(". "), Txt("Silently look up availability.")>>,
     <<Txt("  "), Num(4), Txt(". "), Txt("Confirm the chosen time with the caller.")>>,
     <<Txt("  "), Num(5), Txt(". "), Txt("Ask for their full name and phone number.")>>,
     <<Txt("  "), Num(6), Txt(". "), Txt("Silently create the booking.")>>,
     <<Txt("  "), Num(7), Txt(". "), Txt("Read back the confirmed date, time, and service.")>>,
     <<Txt("When a caller wants to CANCEL an appointment:")>>,
     <<Txt("  "), Num(1), Txt(". "), Txt("Ask for their name and the date of the appointment.")>>,
     <<Txt("  "), Num(2), Txt(". "), Txt("Silently find and remove it.")>>,
     <<Txt("When a caller asks about PRICE, give the exact price from the services list above.")>>,
     <<Txt("When a caller asks about HOURS, tell them the working hours above.")>>,
     <<Txt("If you do not know the answer, say you will pass the message to the team.")>> >>

ResponseStyleSection ==
  << <<>>, <<Txt("## Response Style - CRITICAL RULES")>>,
     <<Txt("This is a live phone call.")>>,
     <<Txt("- MAXIMUM 1-2 SHORT sentences per reply.")>>,
     <<Txt("- Do NOT use bullet points, markdown, asterisks, or numbered lists.")>>,
     <<Txt("Always sound like a real person who genuinely wants to help. Be warm but efficient.")>> >>

\* buildSystemPrompt(config), called at the instant t
buildSystemPrompt(config, t) ==
  IF config.null \/ config.name = ""
    THEN DefaultPrompt
    ELSE
      LET currency == OrStr(config.currency, "USD")
          taxRate == OrNum(config.taxRate, 0)
      IN  << <<Txt("You are "), Txt(config.name), Txt("'s AI receptionist.")>>
               \o (IF config.description # ""
                     THEN <<Txt(" The business is: "), Txt(config.description), Txt(".")>>
                     ELSE <<>>),
             <<>>,
             <<Txt("## Current Date & Time")>>,
             <<Txt("Today is "), currentDate(t), Txt(" and the current time is "),
               currentTime(t), Txt(".")>>,
             <<>>,
             <<Txt("## Business Details")>>,
             <<Txt("- Business name: "), Txt(config.name)>> >>
          \o (IF config.phone # "" THEN << <<Txt("- Phone: "), Txt(config.phone)>> >> ELSE <<>>)
          \o (IF config.email # "" THEN << <<Txt("- Email: "), Txt(config.email)>> >> ELSE <<>>)
          \o (IF config.address # "" THEN << <<Txt("- Address: "), Txt(config.address)>> >> ELSE <<>>)
          \o ServicesSection(config.services, currency, taxRate)
          \o HoursSection(config.hours)
          \o RulesSection(config.bookingRules)
          \o CallHandlingSection
          \o ResponseStyleSection

NoCall == [made |-> FALSE, config |-> NullConfig, prompt |-> <<>>,
           at |-> [date |-> 0, minute |-> 0, second |-> 0]]

\* one call of buildSystemPrompt: the clock has moved on to t
BuildSystemPrompt(config, t) ==
  /\ NotBefore(t, now)
  /\ now' = t
  /\ prevCall' = lastCall
  /\ lastCall' = [made |-> TRUE, config |-> config, prompt |-> buildSystemPrompt(config, t),
                  at |-> t]

PromptInit ==
  /\ now = [date |-> 0, minute |-> 0, second |-> 0]
  /\ lastCall = NoCall
  /\ prevCall = NoCall

\* ------------------------------------------------------------------------
\* Middleware in front of /api: cors, then the rate limiter
\* ------------------------------------------------------------------------
NoOrigin == ""

Origins ==
  {NoOrigin, "http://localhost:5173", "https://app.example.com", "https://evil.example"}

\* the values of CORS_ORIGIN: unset, or a comma-separated list
CorsOriginSettings ==
  {<<>>, <<"https://app.example.com", ",", "https://admin.example.com">>}

\* String.prototype.split(",")
Split(text) == SelectSeq(text, LAMBDA piece : piece # ",")

DefaultOrigins ==
  <<"http://localhost:5173", "http://localhost:5174", "http://127.0.0.1:5173",
    "http://localhost:5001">>

allowedOrigins ==
  IF corsOriginEnv # <<>> THEN Split(corsOriginEnv) ELSE DefaultOrigins

Includes(list, x) == \E i \in 1..Len(list) : list[i] = x

\* the origin callback given to cors(): the value it passes to cb
CorsAllows(origin) ==
  IF origin = NoOrigin THEN TRUE
  ELSE IF Includes(allowedOrigins, origin) THEN TRUE
  ELSE TRUE

Ips == {"10.0.0.1", "10.0.0.2"}

\* the routes under /api that call the vendor, write a file, publish an event
ApiRoutes == {"start-agent", "business/save", "agent-log"}

RouteEffect(route) ==
  IF route = "start-agent" THEN "vendor call"
  ELSE IF route = "business/save" THEN "file write"
  ELSE "event publish"

\* a limiter that rejects only after one request more
OverLimit_OffByOne(totalHits) == totalHits > RateLimitMax + 1

\* express-rate-limit: the request is rejected when its hit exceeds max
OverLimit(totalHits) == totalHits > RateLimitMax

NoApiRequest ==
  [ip |-> "", origin |-> NoOrigin, route |-> "", corsGranted |-> FALSE, status |-> 0,
   effect |-> "none", hit |-> 0]

\* a request under /api passes cors and the rate limiter, and reaches its
\* route handler unless the limiter answers 429
ApiRequest(ip, origin, route) ==
  /\ hits[ip] < RateLimitMax + MaxOverLimit
  /\ hits' = [hits EXCEPT ![ip] = @ + 1]
  /\ lastApi' =
       [ip |-> ip, origin |-> origin, route |-> route, corsGranted |-> CorsAllows(origin),
        status |-> IF OverLimit(hits[ip] + 1) THEN 429 ELSE 200,
        effect |-> IF OverLimit(hits[ip] + 1) THEN "none" ELSE RouteEffect(route),
        hit |-> hits[ip] + 1]
  /\ UNCHANGED corsOriginEnv

\* the window of an IP (windowMs: 60 * 1000) is over: its counter restarts
WindowElapsed(ip) ==
  /\ hits[ip] > 0
  /\ hits' = [hits EXCEPT ![ip] = 0]
  /\ UNCHANGED <<corsOriginEnv, lastApi>>

GatewayInit ==
  /\ corsOriginEnv = <<>>
  /\ hits = [ip \in Ips |-> 0]
  /\ lastApi = NoApiRequest

\* the process starts with CORS_ORIGIN unset or set
GatewayBoot ==
  /\ corsOriginEnv \in CorsOriginSettings
  /\ hits = [ip \in Ips |-> 0]
  /\ lastApi = NoApiRequest

\* ------------------------------------------------------------------------
\* GET /api/google/callback
\* ------------------------------------------------------------------------
\* req.query: "" stands for a parameter that is absent or empty
CallbackQueries == [error : {"", "access_denied"}, code : {"", "code-1"}]

NoQuery == [error |-> "", code |-> ""]

\* the answers of https://oauth2.googleapis.com/token
NoGoogleAnswer == [kind |-> "none", status |-> 0, body |-> "none", access_token |-> "", email |-> ""]

TokenAnswers ==
  [kind : {"throw"}, status : {0}, body : {"none"}, access_token : {""}, email : {""}]
  \cup [kind : {"resp"}, status : {200}, body : {"object"},
        access_token : {"access-1", "access-2"}, email : {""}]
  \cup [kind : {"resp"}, status : {200, 400}, body : {"null", "invalid"},
        access_token : {""}, email : {""}]
  \cup [kind : {"resp"}, status : {400}, body : {"object"}, access_token : {""}, email : {""}]

\* the answers of https://www.googleapis.com/oauth2/v2/userinfo
UserInfoAnswers ==
  [kind : {"throw"}, status : {0}, body : {"none"}, access_token : {""}, email : {""}]
  \cup [kind : {"resp"}, status : {200}, body : {"object"}, access_token : {""},
        email : {"", "owner@example.com"}]
  \cup [kind : {"resp"}, status : {200}, body : {"null"}, access_token : {""}, email : {""}]
  \cup [kind : {"resp"}, status : {401}, body : {"object"}, access_token : {""}, email : {""}]

NoTokenFile == [present |-> FALSE, token |-> ""]

\* JSON.stringify(tokenData)
TokenData(tokens) == [present |-> TRUE, token |-> tokens.access_token]

\* encodeURIComponent
Encoded(text) == [uri |-> text]

Redirect(param, value) == [param |-> param, value |-> Encoded(value)]

GoogleRedirect(target) ==
  /\ redirects' = Append(redirects, target)
  /\ gcPc' = "done"

\* the request arrives: the two checks on the query, then the token exchange
GoogleCallback(q) ==
  /\ gcPc \in {"idle", "done"}
  /\ gcQuery' = q
  /\ gcToken' = NoGoogleAnswer
  /\ tokenWritten' = FALSE
  /\ IF q.error # "" THEN /\ redirects' = <<Redirect("google_error", q.error)>>
                          /\ gcPc' = "done"
     ELSE IF q.code = "" THEN /\ redirects' = <<Redirect("google_error", "no_code")>>
                              /\ gcPc' = "done"
     ELSE /\ redirects' = <<>>
          /\ gcPc' = "token"
  /\ UNCHANGED <<tokenFile, linked, statusReply, configVars>>

\* a handler that goes on whatever the status of the exchange
ExchangeRejected_Never(ans) == FALSE

\* if (!tokenRes.ok)
ExchangeRejected(ans) == ~Ok(ans)

\* the token endpoint answers: tokenRes.json() throws on a body that does
\* not parse, and a null body throws when tokenData is built
TokenAnswered(ans) ==
  /\ gcPc = "token"
  /\ gcToken' = ans
  /\ IF ans.kind = "throw" THEN GoogleRedirect(Redirect("google_error", "server_error"))
     ELSE IF ExchangeRejected(ans)
       THEN GoogleRedirect(Redirect("google_error", "token_exchange_failed"))
     ELSE IF ans.body # "object" THEN GoogleRedirect(Redirect("google_error", "server_error"))
     ELSE /\ gcPc' = "userinfo"
          /\ UNCHANGED redirects
  /\ UNCHANGED <<gcQuery, tokenFile, tokenWritten, linked, statusReply, configVars>>

\* userInfo.email || "", and "" when the lookup fails in any way
EmailOf(ans) ==
  IF Ok(ans) /\ ans.body = "object" THEN ans.email ELSE ""

\* the userinfo endpoint answers; then the token file and the business
\* configuration are written (each write may throw) and the redirect is sent
UserInfoAnswered(ans, tokenWriteOk, configWriteOk) ==
  /\ gcPc = "userinfo"
  /\ UNCHANGED <<gcQuery, gcToken, saveReply, loadReply, statusReply>>
  /\ IF ~tokenWriteOk
       THEN /\ GoogleRedirect(Redirect("google_error", "server_error"))
            /\ UNCHANGED <<tokenFile, tokenWritten, configFile, lastSaved, linked>>
       ELSE /\ tokenFile' = TokenData(gcToken)
            /\ tokenWritten' = TRUE
            /\ IF ~configWriteOk
                 THEN /\ GoogleRedirect(Redirect("google_error", "server_error"))
                      /\ UNCHANGED <<configFile, lastSaved, linked>>
                 ELSE /\ configFile' =
                           Document(JsonStringify(
                             [loadBusinessConfig.doc EXCEPT
                                !.calendarConnected = JTrue,
                                !.calendarEmail = JStr(EmailOf(ans))]))
                      \* the file is no longer the body of a save
                      /\ lastSaved' = NoFile
                      /\ GoogleRedirect(Redirect("google_success", EmailOf(ans)))
                      /\ linked' = [done |-> TRUE, email |-> EmailOf(ans)]

\* ------------------------------------------------------------------------
\* GET /api/google/status
\* ------------------------------------------------------------------------
\* a JSON value as a condition
JTruthy(x) ==
  ~(\/ x.t \in {"absent", "null"}
    \/ (x.t = "string" /\ x.v = "")
    \/ (x.t = "number" /\ x.v \in {"0", "NaN"}))

\* config.calendarEmail || ""
CalendarEmail(config) ==
  IF JTruthy(config.calendarEmail) THEN config.calendarEmail ELSE JStr("")

NoStatusReply == [sent |-> FALSE, connected |-> FALSE, email |-> JStr("")]

\* fs.existsSync(TOKEN_FILE)
StatusConnected == tokenFile.present

\* the handler: loadBusinessConfig() || {} has no calendarEmail when there
\* is no configuration file
GoogleStatus ==
  /\ statusReply' = [sent |-> TRUE,
                     connected |-> StatusConnected,
                     email |-> CalendarEmail(loadBusinessConfig.doc)]
  /\ UNCHANGED <<gcPc, gcQuery, gcToken, tokenFile, tokenWritten, redirects, linked,
                 configVars>>

GoogleInit ==
  /\ gcPc = "idle"
  /\ gcQuery = NoQuery
  /\ gcToken = NoGoogleAnswer
  /\ tokenFile = NoTokenFile
  /\ tokenWritten = FALSE
  /\ redirects = <<>>
  /\ linked = [done |-> FALSE, email |-> ""]
  /\ statusReply = NoStatusReply

\* ------------------------------------------------------------------------
\* Tabs, backend and vendor together: the start-agent fetch of a tab is
\* handled by POST /api/start-agent, whose join and leave calls are
\* answered by the vendor from the agents it has running
\* ------------------------------------------------------------------------
NoFetch == Fetch(0, "none", NoItem, NoAgentId)

ChannelLen(ch) == IF ch = "test" THEN 4 ELSE 5

\* JSON.stringify({ channel, uid, remoteUids: Object.keys(remoteUsers) })
FetchBody(f) ==
  [channel |-> JsVal("string", ChannelLen(f.channel)), uid |-> JsVal("number", 7),
   remoteUids |-> JsVal("array", 0)]

Running(id, channel) == [id |-> id, channel |-> channel]

\* what the vendor answers to a join for a channel: 409 with the id of the
\* agent it has running there, else 200 with a new agent id; 503 at any time
VendorJoinAnswers(channel) ==
  {a \in JoinAnswers :
     /\ a.kind = "resp" /\ a.body = "object"
     /\ \/ a.status = 503 /\ a.agent_id = NoAgentId
        \/ a.status = 409 /\ Running(a.agent_id, channel) \in vendorAgents
        \/ /\ a.status = 200
           /\ \A g \in vendorAgents : g.channel # channel /\ g.id # a.agent_id
           /\ a.agent_id \in AgentIds}

\* the fetch reaches the backend: the handler runs up to its first join
FleetStartAgent(r, f) ==
  /\ BagIn(f, pending)
  /\ f.op = "start"
  /\ \A q \in Reqs : serving[q] # f
  /\ serving' = [serving EXCEPT ![r] = f]
  /\ StartAgent(r, FetchBody(f), TRUE)
  /\ UNCHANGED <<tabVars, vendorAgents>>

FleetJoinAnswered(r, ans) ==
  /\ serving[r] # NoFetch
  /\ ans \in VendorJoinAnswers(serving[r].channel)
  /\ JoinAnswered(r, ans)
  /\ vendorAgents' =
       IF ans.status = 200 THEN vendorAgents \cup {Running(ans.agent_id, serving[r].channel)}
       ELSE vendorAgents
  /\ UNCHANGED <<tabVars, serving>>

\* a leave that the vendor answers with success stops the agent
FleetLeaveAnswered(r, ans) ==
  /\ serving[r] # NoFetch
  /\ LeaveAnswered(r, ans)
  /\ vendorAgents' =
       IF Ok(ans) THEN {g \in vendorAgents : g.id # staleAgentId[r]} ELSE vendorAgents
  /\ UNCHANGED <<tabVars, serving>>

FleetDelayElapsed(r) ==
  /\ serving[r] # NoFetch
  /\ DelayElapsed(r)
  /\ UNCHANGED <<tabVars, fleetVars>>

\* the response reaches the tab, unless the page is gone; the handler's
\* locals are gone with the request
FleetStartAnswered(r) ==
  /\ serving[r] # NoFetch
  /\ reqPc[r] = "done"
  /\ IF BagIn(serving[r], pending)
       THEN StartAnswered(serving[r], responses[r][1].status = 200, responses[r][1].agent_id)
       ELSE UNCHANGED tabVars
  /\ serving' = [serving EXCEPT ![r] = NoFetch]
  /\ reqPc' = [reqPc EXCEPT ![r] = "idle"]
  /\ reqRoute' = [reqRoute EXCEPT ![r] = ""]
  /\ reqBody' = [reqBody EXCEPT ![r] = NoBody]
  /\ staleAgentId' = [staleAgentId EXCEPT ![r] = NoAgentId]
  /\ trace' = [trace EXCEPT ![r] = <<>>]
  /\ joinAnswers' = [joinAnswers EXCEPT ![r] = <<>>]
  /\ leaveAnswers' = [leaveAnswers EXCEPT ![r] = <<>>]
  /\ responses' = [responses EXCEPT ![r] = <<>>]
  /\ UNCHANGED <<stopBody, vendorAgents>>

FleetInit ==
  /\ vendorAgents = {}
  /\ serving = [r \in Reqs |-> NoFetch]

AgentInit ==
  /\ reqPc = [r \in Reqs |-> "idle"]
  /\ reqRoute = [r \in Reqs |-> ""]
  /\ reqBody = [r \in Reqs |-> NoBody]
  /\ stopBody = [r \in Reqs |-> NoStopBody]
  /\ staleAgentId = [r \in Reqs |-> NoAgentId]
  /\ trace = [r \in Reqs |-> <<>>]
  /\ joinAnswers = [r \in Reqs |-> <<>>]
  /\ leaveAnswers = [r \in Reqs |-> <<>>]
  /\ responses = [r \in Reqs |-> <<>>]

Init ==
  /\ AgentInit
  /\ RelayInit
  /\ TabInit
  /\ ConfigInit
  /\ ProxyInit
  /\ PromptInit
  /\ ServerInit
  /\ GatewayInit
  /\ GoogleInit
  /\ FleetInit

\* the state before the process starts
Boot ==
  /\ AgentInit
  /\ RelayInit
  /\ TabInit
  /\ ConfigInit
  /\ ProxyInit
  /\ PromptInit
  /\ ServerBoot
  /\ GatewayInit
  /\ GoogleInit
  /\ FleetInit

\* the state of a listening process, with CORS_ORIGIN set or not
BootGateway ==
  /\ AgentInit
  /\ RelayInit
  /\ TabInit
  /\ ConfigInit
  /\ ProxyInit
  /\ PromptInit
  /\ ServerInit
  /\ GatewayBoot
  /\ GoogleInit
  /\ FleetInit

\* the agent lifecycle manager
Next ==
  \/ \E r \in Reqs, b \in StartBodies, built \in BOOLEAN :
       StartAgent(r, b, built) /\ UNCHANGED <<relayVars, tabVars, configVars, proxyVars, promptVars, serverVars, gatewayVars, googleVars, fleetVars>>
  \/ \E r \in Reqs, ans \in JoinAnswers : JoinAnswered(r, ans) /\ UNCHANGED <<relayVars, tabVars, configVars, proxyVars, promptVars, serverVars, gatewayVars, googleVars, fleetVars>>
  \/ \E r \in Reqs, ans \in LeaveAnswers : LeaveAnswered(r, ans) /\ UNCHANGED <<relayVars, tabVars, configVars, proxyVars, promptVars, serverVars, gatewayVars, googleVars, fleetVars>>
  \/ \E r \in Reqs : DelayElapsed(r) /\ UNCHANGED <<relayVars, tabVars, configVars, proxyVars, promptVars, serverVars, gatewayVars, googleVars, fleetVars>>
  \/ \E r \in Reqs, b \in StopBodies : StopAgent(r, b) /\ UNCHANGED <<relayVars, tabVars, configVars, proxyVars, promptVars, serverVars, gatewayVars, googleVars, fleetVars>>
  \/ \E r \in Reqs, ans \in LeaveAnswers : StopAgentAnswered(r, ans) /\ UNCHANGED <<relayVars, tabVars, configVars, proxyVars, promptVars, serverVars, gatewayVars, googleVars, fleetVars>>

Spec == Init /\ [][Next]_vars

\* the event relay with one subscriber, run past the capacity of the buffer
NextRelay ==
  \/ \E body \in {Described("tool_start"), Described("")} : AgentLogPost(body, MaxPublished) /\ UNCHANGED <<agentVars, tabVars, configVars, proxyVars, promptVars, serverVars, gatewayVars, googleVars, fleetVars>>
  \/ AgentEventsGet(1) /\ UNCHANGED <<agentVars, tabVars, configVars, proxyVars, promptVars, serverVars, gatewayVars, googleVars, fleetVars>>
  \/ AgentEventsClose(1) /\ UNCHANGED <<agentVars, tabVars, configVars, proxyVars, promptVars, serverVars, gatewayVars, googleVars, fleetVars>>

SpecRelay == Init /\ [][NextRelay]_vars

\* the event relay with several subscribers and a few events
NextRelayFan ==
  \/ \E body \in LogBodies : AgentLogPost(body, MaxFanPublished) /\ UNCHANGED <<agentVars, tabVars, configVars, proxyVars, promptVars, serverVars, gatewayVars, googleVars, fleetVars>>
  \/ \E c \in Conns : AgentEventsGet(c) /\ UNCHANGED <<agentVars, tabVars, configVars, proxyVars, promptVars, serverVars, gatewayVars, googleVars, fleetVars>>
  \/ \E c \in Conns : AgentEventsClose(c) /\ UNCHANGED <<agentVars, tabVars, configVars, proxyVars, promptVars, serverVars, gatewayVars, googleVars, fleetVars>>

SpecRelayFan == Init /\ [][NextRelayFan]_vars

\* the browser tabs, with the backend answering their fetches
NextTabs ==
  \/ \E t \in Tabs : InitAgentPage(t) /\ UNCHANGED <<agentVars, relayVars, configVars, proxyVars, promptVars, serverVars, gatewayVars, googleVars, fleetVars>>
  \/ \E t \in Tabs, ok \in BOOLEAN : SessionAnswered(t, ok) /\ UNCHANGED <<agentVars, relayVars, configVars, proxyVars, promptVars, serverVars, gatewayVars, googleVars, fleetVars>>
  \/ \E t \in Tabs, ch \in Channels : SetChannel(t, ch) /\ UNCHANGED <<agentVars, relayVars, configVars, proxyVars, promptVars, serverVars, gatewayVars, googleVars, fleetVars>>
  \/ \E t \in Tabs : JoinChannel(t) /\ UNCHANGED <<agentVars, relayVars, configVars, proxyVars, promptVars, serverVars, gatewayVars, googleVars, fleetVars>>
  \/ \E t \in Tabs : StorageEvent(t) /\ UNCHANGED <<agentVars, relayVars, configVars, proxyVars, promptVars, serverVars, gatewayVars, googleVars, fleetVars>>
  \/ \E t \in Tabs : ToggleAgent(t) /\ UNCHANGED <<agentVars, relayVars, configVars, proxyVars, promptVars, serverVars, gatewayVars, googleVars, fleetVars>>
  \/ \E f \in BagToSet(pending), ok \in BOOLEAN, id \in AgentIds \cup {NoAgentId} :
       StartAnswered(f, ok, id) /\ UNCHANGED <<agentVars, relayVars, configVars, proxyVars, promptVars, serverVars, gatewayVars, googleVars, fleetVars>>
  \/ \E f \in BagToSet(pending), ok \in BOOLEAN : StopAnswered(f, ok) /\ UNCHANGED <<agentVars, relayVars, configVars, proxyVars, promptVars, serverVars, gatewayVars, googleVars, fleetVars>>
  \/ \E t \in Tabs : LeaveChannel(t) /\ UNCHANGED <<agentVars, relayVars, configVars, proxyVars, promptVars, serverVars, gatewayVars, googleVars, fleetVars>>
  \/ \E f \in BagToSet(pending), ok \in BOOLEAN : LeaveStopAnswered(f, ok) /\ UNCHANGED <<agentVars, relayVars, configVars, proxyVars, promptVars, serverVars, gatewayVars, googleVars, fleetVars>>
  \/ \E t \in Tabs : Unload(t) /\ UNCHANGED <<agentVars, relayVars, configVars, proxyVars, promptVars, serverVars, gatewayVars, googleVars, fleetVars>>

SpecTabs == Init /\ [][NextTabs]_vars

\* the business configuration store
NextConfig ==
  \/ \E text \in ConfigBodies, writeOk \in BOOLEAN :
       BusinessSave(text, writeOk) /\ UNCHANGED <<agentVars, relayVars, tabVars, proxyVars, promptVars, serverVars, gatewayVars, googleVars, fleetVars>>
  \/ BusinessLoad /\ UNCHANGED <<agentVars, relayVars, tabVars, proxyVars, promptVars, serverVars, gatewayVars, googleVars, fleetVars>>

SpecConfig == Init /\ [][NextConfig]_vars

\* the LLM reverse proxy
NextProxy ==
  \/ \E h \in ProxyHeaders, body \in ChatBodies :
       ProxyRequest(h, body) /\ UNCHANGED <<agentVars, relayVars, tabVars, configVars, promptVars, serverVars, gatewayVars, googleVars, fleetVars>>
  \/ \E ans \in UpstreamAnswers :
       UpstreamAnswered(ans) /\ UNCHANGED <<agentVars, relayVars, tabVars, configVars, promptVars, serverVars, gatewayVars, googleVars, fleetVars>>
  \/ PipeData /\ UNCHANGED <<agentVars, relayVars, tabVars, configVars, promptVars, serverVars, gatewayVars, googleVars, fleetVars>>
  \/ PipeEnd /\ UNCHANGED <<agentVars, relayVars, tabVars, configVars, promptVars, serverVars, gatewayVars, googleVars, fleetVars>>
  \/ PipeError /\ UNCHANGED <<agentVars, relayVars, tabVars, configVars, promptVars, serverVars, gatewayVars, googleVars, fleetVars>>

SpecProxy == Init /\ [][NextProxy]_vars

\* the prompt builder, called at any later instant with any configuration
NextPrompt ==
  \E config \in PromptConfigs, t \in Clock :
    BuildSystemPrompt(config, t) /\ UNCHANGED <<agentVars, relayVars, tabVars, configVars, proxyVars, serverVars, gatewayVars, googleVars, fleetVars>>

SpecPrompt == Init /\ [][NextPrompt]_vars

\* the start-agent bodies sent to the process: any channel, from one caller
ServedBodies ==
  {b \in StartBodies : b.uid = JsVal("number", 0) /\ b.remoteUids = Undef}

\* the process from its start: requests are served once it listens
NextServer ==
  \/ Startup /\ UNCHANGED <<agentVars, relayVars, tabVars, configVars, proxyVars, promptVars, gatewayVars, googleVars, fleetVars>>
  \/ procState = "listening" /\ Session
       /\ UNCHANGED <<agentVars, relayVars, tabVars, configVars, proxyVars, promptVars, gatewayVars, googleVars, fleetVars>>
  \/ procState = "listening" /\ \E r \in Reqs, b \in ServedBodies, built \in BOOLEAN :
       StartAgent(r, b, built) /\ UNCHANGED <<relayVars, tabVars, configVars, proxyVars, promptVars, serverVars, gatewayVars, googleVars, fleetVars>>
  \/ procState = "listening" /\ \E r \in Reqs, ans \in JoinAnswers :
       JoinAnswered(r, ans) /\ UNCHANGED <<relayVars, tabVars, configVars, proxyVars, promptVars, serverVars, gatewayVars, googleVars, fleetVars>>
  \/ procState = "listening" /\ \E r \in Reqs, ans \in LeaveAnswers :
       LeaveAnswered(r, ans) /\ UNCHANGED <<relayVars, tabVars, configVars, proxyVars, promptVars, serverVars, gatewayVars, googleVars, fleetVars>>
  \/ procState = "listening" /\ \E r \in Reqs :
       DelayElapsed(r) /\ UNCHANGED <<relayVars, tabVars, configVars, proxyVars, promptVars, serverVars, gatewayVars, googleVars, fleetVars>>
  \/ procState = "listening" /\ \E r \in Reqs, b \in StopBodies :
       StopAgent(r, b) /\ UNCHANGED <<relayVars, tabVars, configVars, proxyVars, promptVars, serverVars, gatewayVars, googleVars, fleetVars>>
  \/ procState = "listening" /\ \E r \in Reqs, ans \in LeaveAnswers :
       StopAgentAnswered(r, ans) /\ UNCHANGED <<relayVars, tabVars, configVars, proxyVars, promptVars, serverVars, gatewayVars, googleVars, fleetVars>>

SpecServer == Boot /\ [][NextServer]_vars

\* the middleware in front of the /api routes
NextGateway ==
  \/ \E ip \in Ips, origin \in Origins, route \in ApiRoutes :
       ApiRequest(ip, origin, route)
         /\ UNCHANGED <<agentVars, relayVars, tabVars, configVars, proxyVars, promptVars, serverVars, googleVars, fleetVars>>
  \/ \E ip \in Ips :
       WindowElapsed(ip)
         /\ UNCHANGED <<agentVars, relayVars, tabVars, configVars, proxyVars, promptVars, serverVars, googleVars, fleetVars>>

SpecGateway == BootGateway /\ [][NextGateway]_vars

\* the OAuth callback, one request after another, with saves and status
\* requests in between
NextGoogle ==
  \/ \E q \in CallbackQueries :
       GoogleCallback(q)
         /\ UNCHANGED <<agentVars, relayVars, tabVars, proxyVars, promptVars, serverVars, gatewayVars, fleetVars>>
  \/ \E ans \in TokenAnswers :
       TokenAnswered(ans)
         /\ UNCHANGED <<agentVars, relayVars, tabVars, proxyVars, promptVars, serverVars, gatewayVars, fleetVars>>
  \/ \E ans \in UserInfoAnswers, tokenWriteOk \in BOOLEAN, configWriteOk \in BOOLEAN :
       UserInfoAnswered(ans, tokenWriteOk, configWriteOk)
         /\ UNCHANGED <<agentVars, relayVars, tabVars, proxyVars, promptVars, serverVars, gatewayVars, fleetVars>>
  \/ \E text \in ConfigBodies, writeOk \in BOOLEAN :
       BusinessSave(text, writeOk)
         /\ UNCHANGED <<agentVars, relayVars, tabVars, proxyVars, promptVars, serverVars, gatewayVars, googleVars, fleetVars>>
  \/ GoogleStatus
       /\ UNCHANGED <<agentVars, relayVars, tabVars, proxyVars, promptVars, serverVars, gatewayVars, fleetVars>>

SpecGoogle == Init /\ [][NextGoogle]_vars

\* the remote users of the channel as the tabs see them
NextUsers ==
  \/ \E t \in Tabs : InitAgentPage(t) /\ UNCHANGED <<agentVars, relayVars, configVars, proxyVars, promptVars, serverVars, gatewayVars, googleVars, fleetVars>>
  \/ \E t \in Tabs : SessionAnswered(t, TRUE) /\ UNCHANGED <<agentVars, relayVars, configVars, proxyVars, promptVars, serverVars, gatewayVars, googleVars, fleetVars>>
  \/ \E t \in Tabs : JoinChannel(t) /\ UNCHANGED <<agentVars, relayVars, configVars, proxyVars, promptVars, serverVars, gatewayVars, googleVars, fleetVars>>
  \/ \E t \in Tabs : LeaveChannel(t) /\ UNCHANGED <<agentVars, relayVars, configVars, proxyVars, promptVars, serverVars, gatewayVars, googleVars, fleetVars>>
  \/ \E t \in Tabs, u \in Uids :
       UserJoined(t, u)
         /\ UNCHANGED <<tabPc, isJoined, isAgentRunning, agentId, channelInput, agentBtnDisabled,
                        storageDirty, runningChannel, pending, lsLock, fetchOk>>
         /\ UNCHANGED <<agentVars, relayVars, configVars, proxyVars, promptVars, serverVars, gatewayVars, googleVars, fleetVars>>
  \/ \E t \in Tabs, u \in Uids :
       UserPublished(t, u)
         /\ UNCHANGED <<tabPc, isJoined, isAgentRunning, agentId, channelInput, agentBtnDisabled,
                        storageDirty, runningChannel, pending, lsLock, fetchOk>>
         /\ UNCHANGED <<agentVars, relayVars, configVars, proxyVars, promptVars, serverVars, gatewayVars, googleVars, fleetVars>>
  \/ \E t \in Tabs, u \in Uids, resolved \in BOOLEAN :
       SubscribeAnswered(t, u, resolved)
         /\ UNCHANGED <<tabPc, isJoined, isAgentRunning, agentId, channelInput, agentBtnDisabled,
                        storageDirty, runningChannel, pending, lsLock, fetchOk>>
         /\ UNCHANGED <<agentVars, relayVars, configVars, proxyVars, promptVars, serverVars, gatewayVars, googleVars, fleetVars>>
  \/ \E t \in Tabs, u \in Uids :
       UserLeft(t, u)
         /\ UNCHANGED <<tabPc, isJoined, isAgentRunning, agentId, channelInput, agentBtnDisabled,
                        storageDirty, runningChannel, pending, lsLock, fetchOk>>
         /\ UNCHANGED <<agentVars, relayVars, configVars, proxyVars, promptVars, serverVars, gatewayVars, googleVars, fleetVars>>

SpecUsers == Init /\ [][NextUsers]_vars

\* the tabs start agents through the backend; the tabs' stop requests are
\* left out
NextFleet ==
  \/ \E t \in Tabs : InitAgentPage(t) /\ UNCHANGED <<agentVars, relayVars, configVars, proxyVars, promptVars, serverVars, gatewayVars, googleVars, fleetVars>>
  \/ \E t \in Tabs : SessionAnswered(t, TRUE) /\ UNCHANGED <<agentVars, relayVars, configVars, proxyVars, promptVars, serverVars, gatewayVars, googleVars, fleetVars>>
  \/ \E t \in Tabs : JoinChannel(t) /\ UNCHANGED <<agentVars, relayVars, configVars, proxyVars, promptVars, serverVars, gatewayVars, googleVars, fleetVars>>
  \/ \E t \in Tabs : StorageEvent(t) /\ UNCHANGED <<agentVars, relayVars, configVars, proxyVars, promptVars, serverVars, gatewayVars, googleVars, fleetVars>>
  \/ \E t \in Tabs :
       /\ ~isAgentRunning[t]
       /\ ToggleAgent(t)
       /\ UNCHANGED <<agentVars, relayVars, configVars, proxyVars, promptVars, serverVars, gatewayVars, googleVars, fleetVars>>
  \/ \E t \in Tabs : Unload(t) /\ UNCHANGED <<agentVars, relayVars, configVars, proxyVars, promptVars, serverVars, gatewayVars, googleVars, fleetVars>>
  \/ \E r \in Reqs, f \in BagToSet(pending) :
       FleetStartAgent(r, f) /\ UNCHANGED <<relayVars, configVars, proxyVars, promptVars, serverVars, gatewayVars, googleVars>>
  \/ \E r \in Reqs, ans \in JoinAnswers :
       FleetJoinAnswered(r, ans) /\ UNCHANGED <<relayVars, configVars, proxyVars, promptVars, serverVars, gatewayVars, googleVars>>
  \/ \E r \in Reqs, ans \in LeaveAnswers :
       FleetLeaveAnswered(r, ans) /\ UNCHANGED <<relayVars, configVars, proxyVars, promptVars, serverVars, gatewayVars, googleVars>>
  \/ \E r \in Reqs :
       FleetDelayElapsed(r) /\ UNCHANGED <<relayVars, configVars, proxyVars, promptVars, serverVars, gatewayVars, googleVars>>
  \/ \E r \in Reqs :
       FleetStartAnswered(r) /\ UNCHANGED <<relayVars, configVars, proxyVars, promptVars, serverVars, gatewayVars, googleVars>>

SpecFleet == Init /\ [][NextFleet]_vars

\* ------------------------------------------------------------------------
\* Properties of POST /api/start-agent
\* ------------------------------------------------------------------------
\* the vendor calls of a request, without the delays
VendorCalls(r) == SelectSeq(trace[r], LAMBDA e : e.op # "delay")

Joins(r) == Len(SelectSeq(trace[r], LAMBDA e : e.op = "join"))

Leaves(r) == Len(SelectSeq(trace[r], LAMBDA e : e.op = "leave"))

IsPrefix(s, t) == Len(s) <= Len(t) /\ SubSeq(t, 1, Len(s)) = s

\* a 409 answer whose error body carries a stale agent id
ConflictWithId(ans) ==
  ans.kind = "resp" /\ ans.status = 409 /\ ans.body = "object" /\ TruthyId(ans.agent_id)

ConflictSequence(id) == <<Call("join", ""), Call("leave", id), Call("join", "")>>

\* C1: when the first join is answered 409 with a stale agent id X, the
\* vendor calls of the request are join, leave(X), join, in that order and
\* nothing else: the leave is issued at once, and the request ends with
\* exactly these three calls.
C1_ConflictCallsAreJoinLeaveJoin ==
  \A r \in Reqs :
    (Len(joinAnswers[r]) >= 1 /\ ConflictWithId(joinAnswers[r][1])) =>
      LET full == ConflictSequence(joinAnswers[r][1].agent_id) IN
        /\ IsPrefix(VendorCalls(r), full)
        /\ Len(VendorCalls(r)) >= 2
        /\ reqPc[r] \in {"join2", "done"} => VendorCalls(r) = full

C1_Witness ==
  \E r \in Reqs :
    /\ reqPc[r] = "done"
    /\ Len(joinAnswers[r]) = 2
    /\ ConflictWithId(joinAnswers[r][1])
    /\ VendorCalls(r) = ConflictSequence(joinAnswers[r][1].agent_id)

\* the reply that surfaces a failed vendor answer
FailureReply(ans) ==
  IF ans.kind = "throw" THEN InternalError
  ELSE Reply(ans.status, NoAgentId, "Agora API error")

\* C2: one request makes at most two join calls and at most one leave
\* call whatever the vendor answers, and when the retried join fails too
\* (a second 409 included) the failure is the response and the retried
\* join is the last vendor call.
C2_AtMostTwoJoinsOneLeave ==
  \A r \in Reqs :
    /\ Joins(r) <= 2
    /\ Leaves(r) <= 1
    /\ Len(joinAnswers[r]) <= 2
    /\ (Len(joinAnswers[r]) = 2 /\ ~Ok(joinAnswers[r][2])) =>
         /\ reqPc[r] = "done"
         /\ responses[r] = <<FailureReply(joinAnswers[r][2])>>
         /\ Joins(r) = 2
         /\ trace[r][Len(trace[r])] = Call("join", "")

C2_Witness ==
  \E r \in Reqs :
    /\ reqPc[r] = "done"
    /\ Len(joinAnswers[r]) = 2
    /\ joinAnswers[r][2].status = 409
    /\ Leaves(r) = 1
    /\ responses[r][1].status = 409

\* C3 as stated: every retried join comes after a leave call and after the
\* fixed delay.
C3_RetryAlwaysAfterLeaveAndDelay ==
  \A r \in Reqs :
    Joins(r) = 2 =>
      \E i, j \in 1..Len(trace[r]) :
        /\ i < j
        /\ trace[r][i].op = "leave"
        /\ trace[r][j] = Delay(StaleAgentDelayMs)

\* C3 (amended): the retried join comes after the leave call whenever the
\* error body names a stale agent, and after the fixed delay whenever that
\* leave call returned a response; without a stale agent id there is no
\* leave and no delay, and a leave call that throws skips the delay.
C3_RetryAfterLeaveAndDelayWhenLeaveResponds ==
  \A r \in Reqs :
    Joins(r) = 2 =>
      IF ~TruthyId(staleAgentId[r])
        THEN trace[r] = <<Call("join", ""), Call("join", "")>>
      ELSE IF leaveAnswers[r][1].kind = "resp"
        THEN trace[r] = <<Call("join", ""), Call("leave", staleAgentId[r]),
                          Delay(StaleAgentDelayMs), Call("join", "")>>
        ELSE trace[r] = <<Call("join", ""), Call("leave", staleAgentId[r]),
                          Call("join", "")>>

C3_Witness ==
  \E r \in Reqs :
    /\ Joins(r) = 2
    /\ Len(trace[r]) = 4
    /\ trace[r][3] = Delay(StaleAgentDelayMs)
    /\ leaveAnswers[r][1].status = 404

\* the request fields the validation is meant to refuse
ChannelRefused(b) ==
  \/ b.channel.t = "undefined"
  \/ b.channel.t # "string"
  \/ b.channel.n > MaxChannelLen

RemoteUidsNotArray(b) == b.remoteUids.t \notin {"undefined", "array"}

\* C4: a request whose channel is missing, not a string or longer than 64
\* characters, whose uid is missing, or whose remoteUids is given and is
\* not an array, is answered 400 and makes no vendor call.
C4_MalformedRequestIs400WithoutVendorCall ==
  \A r \in Reqs :
    (reqRoute[r] = "start-agent" /\ (ChannelRefused(reqBody[r]) \/ UidMissing(reqBody[r])
                             \/ RemoteUidsNotArray(reqBody[r]))) =>
      /\ reqPc[r] = "done"
      /\ Len(responses[r]) = 1
      /\ responses[r][1].status = 400
      /\ trace[r] = <<>>

\* ------------------------------------------------------------------------
\* Properties of the event relay
\* ------------------------------------------------------------------------
Min(a, b) == IF a < b THEN a ELSE b

\* the number of events replayed to a subscriber that connected after n
Replayed(n) == Min(n, LogBufferCap)

\* C6: a subscriber that connects after n events have been published is
\* sent on connection exactly the last min(n, 50) published events, in
\* publish order.
C6_ReplayIsLastFiftyInOrder ==
  \A c \in Conns :
    connState[c] # "idle" =>
      LET n == connectedAt[c] IN
        /\ Len(stream[c]) >= Replayed(n)
        /\ SubSeq(stream[c], 1, Replayed(n)) = SubSeq(published, n - Replayed(n) + 1, n)
        /\ Len(published) = n => Len(stream[c]) = Replayed(n)

C6_Witness ==
  /\ connState[1] = "open"
  /\ connectedAt[1] = LogBufferCap + 1
  /\ Len(stream[1]) = LogBufferCap
  /\ stream[1][1].ts = 2

\* C7: every event published while a subscriber is connected is written to
\* it exactly once, after its replayed history and in publish order: what
\* follows the replay is exactly the events published since it connected,
\* and no event occurs twice in its stream.
C7_LiveEventsOnceAfterReplay ==
  \A c \in Conns :
    connState[c] = "open" =>
      /\ SubSeq(stream[c], Replayed(connectedAt[c]) + 1, Len(stream[c]))
           = SubSeq(published, connectedAt[c] + 1, Len(published))
      /\ \A i, j \in 1..Len(stream[c]) : stream[c][i] = stream[c][j] => i = j

C7_Witness ==
  \E c, d \in Conns :
    /\ c # d
    /\ connState[c] = "open" /\ connState[d] = "open"
    /\ connectedAt[c] = 1 /\ connectedAt[d] = 2
    /\ Len(published) = 3
    /\ Len(stream[c]) = 3 /\ Len(stream[d]) = 3

\* ------------------------------------------------------------------------
\* Properties of the cross-tab agent lock
\* ------------------------------------------------------------------------
\* C5: two tabs never both hold a running agent for the same channel.
C5_OneRunningAgentPerChannel ==
  \A t, u \in Tabs :
    (t # u /\ isAgentRunning[t] /\ isAgentRunning[u]) =>
      runningChannel[t] # runningChannel[u]

\* ------------------------------------------------------------------------
\* Properties of the business configuration store
\* ------------------------------------------------------------------------
\* C8: a load that follows a successful save returns the body of the last
\* save field for field.
C8_LoadReturnsLastSavedBody ==
  loadReply.saved.present => loadReply.body = loadReply.saved

\* ------------------------------------------------------------------------
\* Properties of the LLM reverse proxy
\* ------------------------------------------------------------------------
\* C9: once the upstream has answered, the response carries the upstream
\* status code, and the chunks written to it are exactly the upstream body
\* chunks read so far, in order: a chunk is written when it is read, not
\* when the upstream body ends.
C9_StatusPreservedAndChunksStreamedInOrder ==
  (proxyPc \in {"streaming", "done", "aborted"} /\ upstream.kind = "resp") =>
    /\ resStatus = upstream.status
    /\ resBody = SubSeq(upstream.chunks, 1, upRead)
    /\ resEnded => upRead = Len(upstream.chunks)

C9_Witness ==
  /\ proxyPc = "streaming"
  /\ upstream.status = 429
  /\ Len(upstream.chunks) = 3
  /\ upRead = 2
  /\ resBody = <<"c2", "c1">>
  /\ ~resEnded

NumberedLines(p) ==
  SelectSeq(p, LAMBDA l : Len(l) >= 3 /\ l[1].t = "num" /\ l[2] = Txt(". "))

ContainsText(p, s) ==
  \E i \in 1..Len(p) : \E j \in 1..Len(p[i]) : p[i][j] = Txt(s)

Named(config) == ~config.null /\ config.name # ""

TwoCallsSameConfig ==
  prevCall.made /\ lastCall.made /\ prevCall.config = lastCall.config

\* C12 as stated: two calls with the same configuration return the same
\* string, whenever they are made.
C12_SameConfigSamePrompt ==
  TwoCallsSameConfig => prevCall.prompt = lastCall.prompt

SameMinute(t, u) == t.date = u.date /\ t.minute = u.minute

\* C12: two calls with the same configuration return the same string when
\* they are made within the same minute of the same day, or when the
\* configuration is null or has no business name.
C12_SameConfigSameMinuteSamePrompt ==
  (TwoCallsSameConfig /\ (SameMinute(prevCall.at, lastCall.at) \/ ~Named(lastCall.config))) =>
    prevCall.prompt = lastCall.prompt

\* two calls for the same named business at two instants of one minute
C12_Witness ==
  /\ TwoCallsSameConfig
  /\ Named(lastCall.config)
  /\ SameMinute(prevCall.at, lastCall.at)
  /\ prevCall.at # lastCall.at
  /\ prevCall.prompt = lastCall.prompt

\* ------------------------------------------------------------------------
\* Properties of POST /api/stop-agent and of the two agent endpoints
\* ------------------------------------------------------------------------
StopRequests == {r \in Reqs : reqRoute[r] = "stop-agent"}

\* the agentId is missing (absent, null or empty), not a string, or longer
\* than 128 characters
AgentIdRefused(b) ==
  \/ b.t \in {"undefined", "null"}
  \/ b.t # "string"
  \/ b.n = 0
  \/ b.n > MaxAgentIdLen

\* C13: a stop-agent request whose agentId is missing, not a string or
\* longer than 128 characters is answered 400 and makes no vendor call; a
\* request with a valid agentId makes exactly one vendor call, the leave for
\* that id, and is answered {ok: true} exactly when that call succeeded.
C13_StopValidatesThenLeavesOnce ==
  \A r \in StopRequests :
    IF AgentIdRefused(stopBody[r])
      THEN /\ responses[r] = <<Reply(400, NoAgentId, "Invalid agentId.")>>
           /\ trace[r] = <<>>
      ELSE /\ trace[r] = <<Call("leave", stopBody[r].s)>>
           /\ Len(leaveAnswers[r]) <= 1
           /\ reqPc[r] = "done" <=> Len(leaveAnswers[r]) = 1
           /\ reqPc[r] = "done" =>
                /\ Len(responses[r]) = 1
                /\ responses[r][1].ok <=> Ok(leaveAnswers[r][1])
                /\ responses[r][1].ok => responses[r][1] = StopOk

\* a stop request for an id of the full length was answered {ok: true}
C13_Witness ==
  \E r \in StopRequests :
    /\ stopBody[r].n = MaxAgentIdLen
    /\ reqPc[r] = "done"
    /\ Ok(leaveAnswers[r][1])
    /\ responses[r] = <<StopOk>>

\* the vendor's answer to the last vendor call of a request
LastAnswer(r) ==
  IF reqRoute[r] = "stop-agent" THEN leaveAnswers[r][Len(leaveAnswers[r])]
  ELSE joinAnswers[r][Len(joinAnswers[r])]

Answered(r) ==
  /\ reqPc[r] = "done"
  /\ IF reqRoute[r] = "stop-agent" THEN Len(leaveAnswers[r]) > 0 ELSE Len(joinAnswers[r]) > 0

\* C14: when the vendor's answer to the last vendor call of a start-agent
\* or stop-agent request is a response that is not successful, the
\* endpoint answers with that status and a generic message, without an
\* agent id and without ok: true; an agent id is returned only when the
\* last join succeeded.
C14_VendorFailureStatusIsRelayed ==
  \A r \in Reqs :
    /\ (Answered(r) /\ LastAnswer(r).kind = "resp" /\ ~Ok(LastAnswer(r))) =>
         responses[r] = <<Reply(LastAnswer(r).status, NoAgentId, "Agora API error")>>
    /\ \A i \in 1..Len(responses[r]) :
         responses[r][i].agent_id # NoAgentId =>
           /\ reqRoute[r] = "start-agent"
           /\ Answered(r)
           /\ Ok(LastAnswer(r))

\* C15: every start-agent and stop-agent request is answered exactly once:
\* a request that is not answered yet has a vendor call or the delay
\* outstanding, a finished request has exactly one response, and a vendor
\* call that throws, or a prompt that cannot be built, is answered with the
\* generic 500.
C15_ExactlyOneResponse ==
  \A r \in Reqs :
    /\ Len(responses[r]) <= 1
    /\ reqPc[r] = "done" <=> Len(responses[r]) = 1
    /\ reqPc[r] \in {"idle", "join1", "leave", "delay", "join2", "stop", "done"}
    /\ reqPc[r] = "idle" <=> reqRoute[r] = ""
    /\ (Answered(r) /\ LastAnswer(r).kind = "throw") => responses[r] = <<InternalError>>
    /\ (reqPc[r] = "done" /\ reqRoute[r] = "start-agent" /\ trace[r] = <<>>
          /\ ValidationError(reqBody[r]) = "") => responses[r] = <<InternalError>>

\* a join that threw and a leave that threw were each answered with the 500
C15_Witness ==
  \E r \in Reqs :
    /\ Answered(r)
    /\ LastAnswer(r).kind = "throw"
    /\ responses[r] = <<InternalError>>

\* ------------------------------------------------------------------------
\* Properties of the process: secrets and startup
\* ------------------------------------------------------------------------
SecretNames ==
  {"AGORA_CUSTOMER_ID", "AGORA_CUSTOMER_SECRET", "LLM_API_KEY", "TTS_API_KEY", "STT_API_KEY"}

Secrets == {env[n] : n \in SecretNames} \ {""}

\* the environment of the run that differs in the secret values only
OtherRun(e) ==
  [n \in DOMAIN e |->
     IF n \in SecretNames /\ e[n] # "" THEN (IF e[n] = RunA[n] THEN RunB[n] ELSE RunA[n])
     ELSE e[n]]

GenericErrors ==
  {"", "Invalid channel name.", "Missing uid.", "remoteUids must be an array.",
   "Invalid agentId.", "Agora API error", "Internal server error."}

\* the secrets were sent to the vendor by request r
SentToVendor(r) ==
  \E i \in 1..Len(trace[r]) :
    /\ trace[r][i].op = "join"
    /\ trace[r][i].keys \subseteq Secrets
    /\ trace[r][i].keys # {}
    /\ trace[r][i].auth = [base64 |-> <<env.AGORA_CUSTOMER_ID, ":", env.AGORA_CUSTOMER_SECRET>>]

\* C16: no response of start-agent, stop-agent or session contains the
\* value of a secret: an agent response carries a status, the agent id the
\* vendor returned or a generic error text, the session response is exactly
\* the app id and the token, and it is the response of the run in which
\* every secret has another value.
C16_NoSecretInAnyResponse ==
  /\ \A r \in Reqs : \A i \in 1..Len(responses[r]) :
       /\ {responses[r][i].agent_id, responses[r][i].error} \cap Secrets = {}
       /\ responses[r][i].error \in GenericErrors
       /\ responses[r][i].agent_id # NoAgentId =>
            /\ responses[r][i].error = ""
            /\ responses[r][i].agent_id = joinAnswers[r][Len(joinAnswers[r])].agent_id
  /\ sessionReply.sent =>
       /\ {sessionReply.appId, sessionReply.token} \cap Secrets = {}
       /\ sessionReply.appId = env.AGORA_APP_ID
       /\ sessionReply.token \in {env.AGORA_TOKEN, "<null>"}
       /\ sessionReply = SessionReply(OtherRun(env))

\* the secrets went to the vendor, the agent id came back to the browser,
\* and the session was answered
C16_Witness ==
  /\ sessionReply.sent
  /\ env.LLM_API_KEY = RunB.LLM_API_KEY
  /\ \E r \in Reqs :
       /\ SentToVendor(r)
       /\ Len(responses[r]) = 1
       /\ responses[r][1].agent_id \in AgentIds

SecretMissing == \E n \in RequiredNames : env[n] = ""

RequestHandled == sessionReply.sent \/ \E r \in Reqs : reqRoute[r] # ""

\* C19: a process in which a required secret is missing exits at startup
\* and never listens, so no request is handled by it.
C19_NoRequestHandledWithoutSecrets ==
  /\ (SecretMissing /\ procState # "starting") => procState = "exited"
  /\ procState = "listening" => ~SecretMissing
  /\ RequestHandled => (procState = "listening" /\ ~SecretMissing)

\* a process whose only defect was a missing secret has exited
C19_Witness ==
  /\ SecretMissing
  /\ distBuilt
  /\ procState = "exited"
  /\ ~RequestHandled

\* ------------------------------------------------------------------------
\* Properties of the middleware
\* ------------------------------------------------------------------------
\* the configured allow-list, as a set
AllowList ==
  IF corsOriginEnv = <<>>
    THEN {"http://localhost:5173", "http://localhost:5174", "http://127.0.0.1:5173",
          "http://localhost:5001"}
    ELSE {corsOriginEnv[i] : i \in 1..Len(corsOriginEnv)} \ {","}

\* C17: a request that carries an Origin is granted CORS access only if
\* that Origin is in the configured allow-list.
C17_CorsGrantedOnlyToAllowList ==
  (lastApi.ip # "" /\ lastApi.origin # NoOrigin /\ lastApi.corsGranted) =>
    lastApi.origin \in AllowList

\* C18: in the current window of an IP at most 30 of its requests under
\* /api have reached a route handler: the request that is the n-th hit of
\* its IP in the window reaches its handler when n <= 30, and for n > 30
\* it is answered 429 and makes no vendor call, file write or event
\* publish.
C18_AtMostThirtyPerWindowReachHandlers ==
  lastApi.ip # "" =>
    /\ lastApi.hit <= RateLimitMax => (lastApi.status = 200 /\ lastApi.effect # "none")
    /\ lastApi.hit > RateLimitMax => (lastApi.status = 429 /\ lastApi.effect = "none")
    /\ lastApi.effect # "none" => lastApi.hit <= RateLimitMax
    /\ lastApi.hit = hits[lastApi.ip] \/ hits[lastApi.ip] = 0

\* the 31st request of an IP in its window was rejected while another IP
\* was still served
C18_Witness ==
  /\ lastApi.hit = RateLimitMax + 1
  /\ lastApi.status = 429
  /\ \E ip \in Ips : ip # lastApi.ip /\ hits[ip] > 0 /\ hits[ip] < RateLimitMax

\* ------------------------------------------------------------------------
\* Properties of GET /api/google/callback
\* ------------------------------------------------------------------------
ExchangeFailed ==
  gcToken.kind = "throw" \/ (gcToken.kind = "resp" /\ (gcToken.status < 200 \/ gcToken.status > 299))

CallbackErrorCase == gcQuery.error # "" \/ gcQuery.code = "" \/ ExchangeFailed

\* C20: the callback ends in exactly one redirect. With a non-empty error
\* parameter, without a code, or when the token exchange fails, the
\* redirect is to /?google_error=... and the request has not written the
\* token file; a redirect to /?google_success=... is sent only after the
\* exchange succeeded and the token file was written with its token.
C20_CallbackRedirectsOnce ==
  /\ Len(redirects) <= 1
  /\ gcPc = "done" <=> Len(redirects) = 1
  /\ gcPc \in {"idle", "token", "userinfo", "done"}
  /\ (gcPc = "done" /\ CallbackErrorCase) =>
       /\ redirects[1].param = "google_error"
       /\ ~tokenWritten
       /\ gcQuery.error # "" => redirects[1] = [param |-> "google_error", value |-> [uri |-> gcQuery.error]]
  /\ (gcPc = "done" /\ redirects[1].param = "google_success") =>
       /\ gcToken.kind = "resp" /\ gcToken.status = 200
       /\ tokenWritten
       /\ tokenFile = [present |-> TRUE, token |-> gcToken.access_token]
  /\ tokenWritten => ~CallbackErrorCase

\* a failed exchange was redirected to the error page with the token file
\* of an earlier successful callback left as it was
C20_Witness ==
  /\ gcPc = "done"
  /\ ExchangeFailed
  /\ redirects = <<[param |-> "google_error", value |-> [uri |-> "token_exchange_failed"]]>>
  /\ tokenFile.present
  /\ ~tokenWritten

\* ------------------------------------------------------------------------
\* Properties of GET /api/google/status
\* ------------------------------------------------------------------------
\* C21: every status response reports connected = true exactly when the
\* token file exists, and, the process having started without a token file,
\* exactly when an OAuth callback has succeeded before it: false until the
\* first successful callback, true ever after.
C21_ConnectedExactlyAfterSuccessfulCallback ==
  [][statusReply' # statusReply =>
       /\ statusReply'.connected = tokenFile.present
       /\ statusReply'.connected = linked.done]_vars

\* C29: once a callback has succeeded and recorded an email, every status
\* response reports connected = true with the email of the last successful
\* callback, whatever saves of the business configuration came in between.
C29_SaveKeepsCalendarEmail ==
  [][(statusReply' # statusReply /\ linked.done) =>
       /\ statusReply'.connected
       /\ statusReply'.email = [t |-> "string", v |-> linked.email]]_vars

\* ------------------------------------------------------------------------
\* Properties of POST /api/agent-log and of the subscriber set
\* ------------------------------------------------------------------------
\* C22: a POST /api/agent-log without a type (absent or empty) is answered
\* 400 and changes neither the replay buffer nor any subscriber's stream;
\* one with a type is answered 200 {ok:true} and publishes exactly one
\* event, which has the type, tool, label and args of the body and a
\* timestamp, goes to the end of the buffer and to every subscriber.
C22_AgentLogRejectsOrPublishesOne ==
  [][(logReply' # logReply \/ logBody' # logBody \/ published' # published) =>
       IF logBody'.type = "<undefined>" \/ logBody'.type = ""
         THEN /\ logReply' = [status |-> 400, ok |-> FALSE, error |-> "missing type"]
              /\ UNCHANGED <<agentLogBuffer, stream, published, agentLogClients>>
         ELSE /\ logReply' = [status |-> 200, ok |-> TRUE, error |-> ""]
              /\ Len(published') = Len(published) + 1
              /\ SubSeq(published', 1, Len(published)) = published
              /\ LET e == published'[Len(published')] IN
                   /\ DOMAIN e = {"type", "tool", "label", "args", "ts"}
                   /\ e.type = logBody'.type /\ e.tool = logBody'.tool
                   /\ e.label = logBody'.label /\ e.args = logBody'.args
                   /\ agentLogBuffer'[Len(agentLogBuffer')] = e
                   /\ \A c \in Conns :
                        stream'[c] = IF connState[c] = "open" THEN Append(stream[c], e)
                                     ELSE stream[c]]_vars

\* a request without a type was refused while a subscriber was connected
\* and the buffer held an event
C22_Witness ==
  /\ logReply.status = 400
  /\ logBody.type = ""
  /\ logBody.tool = "check_availability"
  /\ Len(agentLogBuffer) >= 1
  /\ \E c \in Conns : connState[c] = "open" /\ Len(stream[c]) >= 1

\* C23: the subscriber set holds exactly the connections that have
\* connected and not yet closed, and nothing is written to a connection
\* after it has closed.
C23_ClosedSubscribersGetNothing ==
  /\ [](agentLogClients = {c \in Conns : connState[c] = "open"})
  /\ [][\A c \in Conns : connState[c] = "closed" => stream'[c] = stream[c]]_vars

\* an event was published after one subscriber had closed: the other
\* subscriber has it, the closed one has not
C23_Witness ==
  \E c, d \in Conns :
    /\ connState[c] = "closed" /\ connState[d] = "open"
    /\ connectedAt[c] = 0 /\ connectedAt[d] = 0
    /\ Len(published) = 2
    /\ stream[c] = SubSeq(published, 1, 1)
    /\ stream[d] = published

\* ------------------------------------------------------------------------
\* Properties of the stale agent stop of POST /api/start-agent
\* ------------------------------------------------------------------------
\* the leave call of the conflict handling of r has failed: it threw or was
\* answered with a status outside 200..299
StaleLeaveFailed(r) ==
  /\ reqRoute[r] = "start-agent"
  /\ Len(leaveAnswers[r]) = 1
  /\ \/ leaveAnswers[r][1].kind = "throw"
     \/ leaveAnswers[r][1].status < 200
     \/ leaveAnswers[r][1].status > 299

\* the response that the answer to a join determines on its own
JoinOutcome(ans) ==
  IF ans.kind = "throw" THEN [status |-> 500, agent_id |-> "<undefined>"]
  ELSE IF ans.status < 200 \/ ans.status > 299
    THEN [status |-> ans.status, agent_id |-> "<undefined>"]
  ELSE IF ans.body # "object" THEN [status |-> 500, agent_id |-> "<undefined>"]
  ELSE [status |-> 200, agent_id |-> ans.agent_id]

\* C24: a failed leave call of the conflict handling does not end the
\* request: no response is sent before the retried join is answered, the
\* retried join is issued (after the delay when the leave was answered),
\* and the response is the one that the answer to that join determines.
C24_FailedStaleLeaveDoesNotAbort ==
  \A r \in Reqs :
    StaleLeaveFailed(r) =>
      /\ reqPc[r] \in {"delay", "join2", "done"}
      /\ reqPc[r] = "delay" <=> Joins(r) = 1
      /\ reqPc[r] # "delay" => Joins(r) = 2 /\ trace[r][Len(trace[r])].op = "join"
      /\ reqPc[r] = "done" <=> Len(joinAnswers[r]) = 2
      /\ reqPc[r] # "done" => responses[r] = <<>>
      /\ reqPc[r] = "done" =>
           /\ Len(responses[r]) = 1
           /\ responses[r][1].status = JoinOutcome(joinAnswers[r][2]).status
           /\ responses[r][1].agent_id = JoinOutcome(joinAnswers[r][2]).agent_id

\* the leave threw, the retried join succeeded and its agent id was returned
C24_Witness ==
  \E r \in Reqs :
    /\ StaleLeaveFailed(r)
    /\ leaveAnswers[r][1].kind = "throw"
    /\ reqPc[r] = "done"
    /\ joinAnswers[r][2].status = 200
    /\ responses[r] = <<[status |-> 200, agent_id |-> "agentB", error |-> "", ok |-> FALSE]>>

\* ------------------------------------------------------------------------
\* Properties of the agent state of a browser tab
\* ------------------------------------------------------------------------
\* the fetch f of tab t is answered in this step
AnsweredFetch(t, ops) ==
  \E f \in BagToSet(pending) :
    f.tab = t /\ f.op \in ops /\ pending' = pending (-) SetToBag({f})

\* C25: in an open tab isAgentRunning is true exactly when agentId is set;
\* the two are set only in the step that handles the answer to a
\* start-agent fetch of the tab, which also sets the lock, and cleared only
\* in the step that handles the answer to a stop-agent fetch of the tab;
\* the handling of a failed answer changes none of agentId, isAgentRunning
\* and the lock keys.
C25_RunningExactlyWhenAgentIdSet ==
  /\ [](\A t \in Tabs : isAgentRunning[t] <=> agentId[t] # "<undefined>")
  /\ [][\A t \in Tabs :
         tabPc'[t] # "closed" =>
           /\ ((~isAgentRunning[t] /\ isAgentRunning'[t]) \/
               (agentId'[t] # agentId[t] /\ agentId'[t] # "<undefined>")) =>
                /\ AnsweredFetch(t, {"start"})
                /\ lsLock'.active = "true" /\ lsLock'.id = agentId'[t]
           /\ ((isAgentRunning[t] /\ ~isAgentRunning'[t]) \/
               (agentId[t] # "<undefined>" /\ agentId'[t] = "<undefined>")) =>
                /\ AnsweredFetch(t, {"stop", "leaveStop"})
                /\ lsLock'.active = "<null>"
           /\ (AnsweredFetch(t, {"start", "stop", "leaveStop"}) /\ ~fetchOk') =>
                UNCHANGED <<agentId, isAgentRunning, lsLock>>]_vars

\* C27: whenever a tab has isAgentRunning = true for channel c, the lock in
\* localStorage is "true" with lock channel c (so that startAgent for c in
\* any other tab returns before its fetch): no page load, start or stop of
\* another tab removes or overwrites the lock of a running agent.
C27_LockMirrorsRunningAgent ==
  \A t \in Tabs :
    isAgentRunning[t] =>
      lsLock.active = "true" /\ lsLock.channel = runningChannel[t]

\* C28: in every state of a tab a running agent implies a joined channel.
C28_RunningImpliesJoined ==
  \A t \in Tabs : isAgentRunning[t] => isJoined[t]

\* ------------------------------------------------------------------------
\* Properties of the conflict handling with several tabs
\* ------------------------------------------------------------------------
\* C26: whenever a start-agent request has issued the leave call of its
\* conflict handling, no tab holds the agent of that call as its running
\* agent.
C26_LeaveOnlyForStaleAgents ==
  \A r \in Reqs :
    (reqPc[r] = "leave" /\ trace[r][Len(trace[r])].op = "leave") =>
      ~\E t \in Tabs : isAgentRunning[t] /\ agentId[t] = trace[r][Len(trace[r])].id

\* ------------------------------------------------------------------------
\* Properties of the remoteUsers map
\* ------------------------------------------------------------------------
\* C30: after a user-left event for uid u, u is absent from the tab's
\* remoteUsers until u joins or publishes again, whatever handlers were
\* awaiting their subscribe call when u left.
C30_LeftUsersStayAbsent ==
  \A t \in Tabs : leftSince[t] \cap remoteUsers[t] = {}

====
